---- MODULE Spec2Model ----
(***************************************************************************)
(* A model of pluggy (src/mod.ts, platform.ts): the dependency manager     *)
(* (addDependency, removeDependency, installDependencies), the specifier   *)
(* classification and the plugin.yml manifest merge of buildProject.       *)
(*                                                                         *)
(* Strings that the code inspects by prefix, splits or concatenates (a     *)
(* dependency specifier, a path) are sequences of lexemes: every           *)
(* delimiter the code looks at (":", "@", "/", ".", "-") is a lexeme of    *)
(* its own, so "maven:g:lib@1" is <<"maven",":","g",":","lib","@","1">>.   *)
(* Paths are relative to ROOT_DIR and normalised, as resolve() and join()  *)
(* leave them.  Filesystem calls succeed; network calls may fail.          *)
(*                                                                         *)
(* Spec runs the install and remove commands over a declared dependency    *)
(* map and the libs directory; SpecClassify applies the classification     *)
(* sites to a specifier; SpecMerge applies the manifest merge to a         *)
(* plugin.yml fragment and a project.                                      *)
(***************************************************************************)
EXTENDS Integers, Sequences, FiniteSets, TLC

VARIABLES
    deps,      \* plugin.json: the dependency map, <<key, value>> in insertion order
    disk,      \* the files that exist (paths relative to ROOT_DIR)
    pc,        \* the position of the running command: "idle" | "install"
    cmd,       \* the options of the running command
    last,      \* what the last function call did
    clsIn,     \* a specifier handed to the classifiers
    clsOut,    \* what each classification site made of it
    mIn,       \* a manifest fragment and a project handed to the merge
    mOut,      \* the merged manifest
    fIn,       \* the arguments of a function called on its own
    fOut       \* what it returned

vars == <<deps, disk, pc, cmd, last, clsIn, clsOut, mIn, mOut, fIn, fOut>>

---------------------------------------------------------------------------
(* Bounds of the model. *)

\* the most dependencies a declared map holds
MaxDeps == 2
\* the most hosts that fail to answer during one command
MaxDown == 2

\* no function has been called on its own
NoArguments == [fn |-> "none"]

NoResult == [returned |-> FALSE]

---------------------------------------------------------------------------
(* Strings as sequences of lexemes. *)

StartsWith(s, p) == Len(s) >= Len(p) /\ SubSeq(s, 1, Len(p)) = p

EndsWith(s, p) == Len(s) >= Len(p) /\ SubSeq(s, Len(s) - Len(p) + 1, Len(s)) = p

\* s.slice(p.length)
DropPrefix(s, p) == SubSeq(s, Len(p) + 1, Len(s))

\* the index of the first sep in s at or after i, 0 when there is none
RECURSIVE IndexOf(_, _, _)
IndexOf(s, sep, i) ==
    IF i > Len(s) THEN 0
    ELSE IF s[i] = sep THEN i
    ELSE IndexOf(s, sep, i + 1)

\* s.split(sep): always at least one part
RECURSIVE Split(_, _)
Split(s, sep) ==
    LET i == IndexOf(s, sep, 1) IN
    IF i = 0 THEN <<s>>
    ELSE <<SubSeq(s, 1, i - 1)>> \o Split(SubSeq(s, i + 1, Len(s)), sep)

\* parts.flatMap(part => part.split(sep))
RECURSIVE FlatSplit(_, _)
FlatSplit(parts, sep) ==
    IF parts = <<>> THEN <<>>
    ELSE Split(Head(parts), sep) \o FlatSplit(Tail(parts), sep)

\* parts[i] of a destructuring; the empty string stands for undefined too,
\* both being falsy
Nth(parts, i) == IF i <= Len(parts) THEN parts[i] ELSE <<>>

\* the index of the last "/" of a path, 0 when there is none
RECURSIVE LastSlash(_, _)
LastSlash(p, i) ==
    IF i = 0 THEN 0
    ELSE IF p[i] = "/" THEN i
    ELSE LastSlash(p, i - 1)

\* basename(path)
Basename(p) == SubSeq(p, LastSlash(p, Len(p)) + 1, Len(p))

\* basename(path, suffix)
BasenameNoExt(p, suffix) ==
    LET b == Basename(p) IN
    IF EndsWith(b, suffix) /\ Len(b) > Len(suffix)
    THEN SubSeq(b, 1, Len(b) - Len(suffix))
    ELSE b

\* dirname(path)
Dirname(p) ==
    LET i == LastSlash(p, Len(p)) IN
    IF i = 0 THEN <<".">> ELSE SubSeq(p, 1, i - 1)

\* resolve(ROOT_DIR, p) for a path inside the project: "./" is dropped
RECURSIVE Resolve(_)
Resolve(p) ==
    IF StartsWith(p, <<".", "/">>) THEN Resolve(DropPrefix(p, <<".", "/">>))
    ELSE p

\* relative(ROOT_DIR, filePath) of a resolved path
Relative(p) == p

\* join(dir, name)
Join(dir, name) == dir \o <<"/">> \o name

\* the elements of a sequence
Range(s) == {s[i] : i \in 1..Len(s)}

---------------------------------------------------------------------------
(* Paths and prefixes. *)

LIBS_DIR == <<"libs">>

MAVEN_PREFIX == <<"maven", ":">>

FILE_PREFIX == <<"file", ":">>

JAR_EXT == <<".", "jar">>

MAVEN_CENTRAL == "https://repo1.maven.org/maven2/"

\* `${name}-${version}.jar` in LIBS_DIR
LibJar(name, version) == Join(LIBS_DIR, name \o <<"-">> \o version \o JAR_EXT)

---------------------------------------------------------------------------
(* The platforms (platform.ts) and the project under test. *)

PLATFORMS == <<"spigot", "paper">>

\* checkPlatform: the platform, or a thrown error
checkPlatform(platform) ==
    IF platform \in Range(PLATFORMS)
    THEN [ok |-> TRUE, platform |-> platform]
    ELSE [ok |-> FALSE, platform |-> platform]

R1 == "https://repo.example.org/maven/"

\* the fields of plugin.json other than the dependency map
Project ==
    [ name |-> "demo",
      version |-> "0.1.0",
      platforms |-> <<"paper", "bukkit">>,
      versions |-> << <<"1", ".", "21">> >>,
      registries |-> <<R1>> ]

\* platforms.find(p => PLATFORMS.includes(checkPlatform(p))): checkPlatform
\* throws on the first unknown platform it is handed
RECURSIVE FindActive(_, _)
FindActive(platforms, i) ==
    IF i > Len(platforms) THEN [ok |-> FALSE, platform |-> "", err |-> "no active platform"]
    ELSE IF ~checkPlatform(platforms[i]).ok
         THEN [ok |-> FALSE, platform |-> "", err |-> "invalid platform"]
    ELSE [ok |-> TRUE, platform |-> platforms[i], err |-> ""]

\* versions.sort(levenshteinDistance)[0]: the comparator is never negative,
\* so the sort leaves the list as it is and the first entry is taken
getActivePlatform(project) ==
    LET found == FindActive(project.platforms, 1) IN
    [ ok |-> found.ok,
      err |-> found.err,
      platform |-> found.platform,
      version |-> IF project.versions = <<>> THEN <<"undefined">>
                  ELSE Head(project.versions) ]

---------------------------------------------------------------------------
(* The network: the hosts a command talks to, and what they serve. *)

SNAPSHOTS == "https://repo.papermc.io/"

MODRINTH_API == "https://api.modrinth.com/v2"

CDN == "https://cdn.modrinth.com/"

Hosts == {SNAPSHOTS, MODRINTH_API, CDN, R1, MAVEN_CENTRAL}

\* the sets of hosts that may fail during one call, among those it contacts
DownSets(contacted) == {D \in SUBSET contacted : Cardinality(D) <= MaxDown}


V121 == <<"1", ".", "21">>

V120 == <<"1", ".", "20">>

\* the version list Modrinth returns for the plugin "we", newest first
WeVersions ==
    << [ version_number |-> <<"4b">>, version_type |-> "beta",
         loaders |-> {"paper"}, game_versions |-> {V121},
         files |-> << [primary |-> TRUE, url |-> "we-4b"] >> ],
       [ version_number |-> <<"3">>, version_type |-> "release",
         loaders |-> {"fabric"}, game_versions |-> {V121},
         files |-> << [primary |-> TRUE, url |-> "we-3-fabric"] >> ],
       [ version_number |-> <<"3">>, version_type |-> "release",
         loaders |-> {"paper"}, game_versions |-> {V120},
         files |-> << [primary |-> TRUE, url |-> "we-3-paper"] >> ],
       [ version_number |-> <<"2">>, version_type |-> "release",
         loaders |-> {"paper", "spigot"}, game_versions |-> {V121},
         files |-> << [primary |-> FALSE, url |-> "we-2-sources"] >> ],
       [ version_number |-> <<"1">>, version_type |-> "release",
         loaders |-> {"paper"}, game_versions |-> {V120, V121},
         files |-> << [primary |-> TRUE, url |-> "we-1"] >> ] >>

NoVersion ==
    [ version_number |-> <<>>, version_type |-> "none", loaders |-> {},
      game_versions |-> {}, files |-> <<>> ]

\* getModrinthProject(id): the project with its versions, or a thrown error
\* (the API is down, the project is unknown, it has no versions)
getModrinthProject(id, down) ==
    IF MODRINTH_API \in down THEN [ok |-> FALSE, versions |-> <<>>]
    ELSE IF id = <<"we">> THEN [ok |-> TRUE, versions |-> WeVersions]
    ELSE [ok |-> FALSE, versions |-> <<>>]

\* files.find(f => f.primary): the index of the file, 0 when there is none
RECURSIVE FindPrimary(_, _)
FindPrimary(files, i) ==
    IF i > Len(files) THEN 0
    ELSE IF files[i].primary THEN i
    ELSE FindPrimary(files, i + 1)

\* what plugin.yml inside a local jar names the plugin, "" when the jar has
\* no plugin.yml or it declares no name
JarPluginName(path) == <<>>

\* the jars the user keeps in the project
LocalJar == <<"libs", "/", "x", ".", "jar">>

\* a file in libs that is no jar
NotesFile == <<"libs", "/", "notes", ".", "txt">>

---------------------------------------------------------------------------
(* The dependency map: Record<string, string>, in insertion order. *)

\* project.dependencies[key], "" standing for undefined
RECURSIVE Lookup(_, _)
Lookup(d, key) ==
    IF d = <<>> THEN <<>>
    ELSE IF Head(d)[1] = key THEN Head(d)[2]
    ELSE Lookup(Tail(d), key)

HasKey(d, key) == \E i \in 1..Len(d) : d[i][1] = key

\* project.dependencies[key] = value: an existing key keeps its place
Put(d, key, value) ==
    IF HasKey(d, key)
    THEN [i \in 1..Len(d) |-> IF d[i][1] = key THEN <<key, value>> ELSE d[i]]
    ELSE Append(d, <<key, value>>)

\* delete project.dependencies[key]
RECURSIVE Delete(_, _)
Delete(d, key) ==
    IF d = <<>> THEN <<>>
    ELSE IF Head(d)[1] = key THEN Delete(Tail(d), key)
    ELSE <<Head(d)>> \o Delete(Tail(d), key)

\* new Set(project.registries || []) with Maven Central added: the
\* registries in the order they are tried
RECURSIVE Dedup(_, _)
Dedup(s, seen) ==
    IF s = <<>> THEN <<>>
    ELSE IF Head(s) \in seen THEN Dedup(Tail(s), seen)
    ELSE <<Head(s)>> \o Dedup(Tail(s), seen \cup {Head(s)})

\* mutant: Maven Central is put before the registries of the project
Registries_CentralFirst(project) == Dedup(<<MAVEN_CENTRAL>> \o project.registries, {})

Registries(project) == Dedup(project.registries \o <<MAVEN_CENTRAL>>, {})

\* the first registry of the list that answers ok, "" when none does
RECURSIVE FirstAnswering(_, _)
FirstAnswering(registries, down) ==
    IF registries = <<>> THEN ""
    ELSE IF Head(registries) \notin down THEN Head(registries)
    ELSE FirstAnswering(Tail(registries), down)

---------------------------------------------------------------------------
(* Classification of a dependency specifier. *)

\* mutant: addDependency takes a path for a local file only when it is
\* spelled with file:
ClassifyAdd_FileOnly(dependency) ==
    IF dependency # <<>> /\ StartsWith(dependency, MAVEN_PREFIX) THEN "coordinate"
    ELSE IF dependency # <<>> /\ StartsWith(dependency, FILE_PREFIX) THEN "local"
    ELSE "registry"

\* addDependency, on the name given on the command line
ClassifyAdd(dependency) ==
    IF dependency # <<>> /\ StartsWith(dependency, MAVEN_PREFIX) THEN "coordinate"
    ELSE IF dependency # <<>>
            /\ (\/ StartsWith(dependency, FILE_PREFIX)
                \/ StartsWith(dependency, <<"/">>)
                \/ StartsWith(dependency, <<".", "/">>)
                \/ StartsWith(dependency, <<".", ".", "/">>))
         THEN "local"
    ELSE "registry"

\* installDependencies, on the value stored in the map
ClassifyInstall(value) ==
    IF StartsWith(value, MAVEN_PREFIX) THEN "coordinate"
    ELSE IF StartsWith(value, FILE_PREFIX) THEN "local"
    ELSE "registry"

\* buildProject, on the value stored in the map
ClassifyBuild(value) ==
    IF StartsWith(value, FILE_PREFIX) THEN "local"
    ELSE IF StartsWith(value, MAVEN_PREFIX) THEN "coordinate"
    ELSE "registry"

\* generateClassPath, on the value stored in the map
ClassifyClassPath(value) ==
    IF StartsWith(value, FILE_PREFIX) THEN "local"
    ELSE IF StartsWith(value, MAVEN_PREFIX) THEN "coordinate"
    ELSE "registry"

\* the kind each site made of clsIn, "" at a site that has not classified it
NotClassified == [add |-> "", install |-> "", build |-> "", classPath |-> ""]

---------------------------------------------------------------------------
(* The tests addDependency and installDependencies apply to a version. *)

\* versionInfo.loaders.some(loader => compatibilityPlatforms.includes(loader))
PlatformCompatible(versionInfo) ==
    versionInfo.loaders \cap Range(Project.platforms) # {}

\* mutant: every version passes for game-version compatible
GameVersionCompatible_Always(versionInfo) == TRUE

\* versionInfo.game_versions.some(v => compatibilityVersions.includes(v))
GameVersionCompatible(versionInfo) ==
    versionInfo.game_versions \cap Range(Project.versions) # {}

\* mutant: the maturity tag is not looked at
BetaSkipped_Never(versionInfo, beta) == FALSE

\* versionInfo.version_type !== "release" && !beta
BetaSkipped(versionInfo, beta) == versionInfo.version_type # "release" /\ ~beta

\* mutant: an artifact is downloaded whether it exists or not
NeedsDownload_Always(force, exists) == TRUE

\* force || !exists: whether an artifact is downloaded and written
NeedsDownload(force, exists) == force \/ ~exists

---------------------------------------------------------------------------
(* addDependency(project, dependency, version, force, beta). *)

\* what a call of addDependency comes to: ok is FALSE when it throws;
\* deps is the map written to plugin.json (wrote), selected the Modrinth
\* version recorded
AddResult(ok, d, wrote, kind, selected, err) ==
    [ ok |-> ok, deps |-> d, wrote |-> wrote, kind |-> kind,
      selected |-> selected, err |-> err ]

\* the maven: branch
AddMaven(d, dependency, version, down) ==
    LET coord == DropPrefix(dependency, MAVEN_PREFIX)
        parts == Split(coord, ":")
        groupId == Nth(parts, 1)
        artifactId == Nth(parts, 2)
        registry == FirstAnswering(Registries(Project), down)
    IN  IF groupId = <<>> \/ artifactId = <<>> \/ version = <<>>
        THEN AddResult(FALSE, d, FALSE, "coordinate", {}, "invalid maven format")
        ELSE IF registry = ""
        THEN AddResult(FALSE, d, FALSE, "coordinate", {}, "not found in registries")
        ELSE AddResult(TRUE,
                 Put(d, artifactId,
                     MAVEN_PREFIX \o groupId \o <<":">> \o artifactId \o <<"@">> \o version),
                 TRUE, "coordinate", {}, "")

\* the local file branch
AddLocal(d, dependency, dsk) ==
    LET path == IF StartsWith(dependency, FILE_PREFIX)
                THEN DropPrefix(dependency, FILE_PREFIX) ELSE dependency
        filePath == Resolve(path)
        name == IF JarPluginName(filePath) # <<>> THEN JarPluginName(filePath)
                ELSE BasenameNoExt(filePath, JAR_EXT)
    IN  IF filePath \notin dsk
        THEN AddResult(FALSE, d, FALSE, "local", {}, "file does not exist")
        ELSE AddResult(TRUE, Put(d, name, FILE_PREFIX \o Relative(filePath)),
                       TRUE, "local", {}, "")

\* the loop over modrinthProject.versions, from the i-th on
RECURSIVE AddLoop(_, _, _, _, _, _, _)
AddLoop(d, dependency, version, force, beta, versions, i) ==
    IF i > Len(versions)
    THEN AddResult(FALSE, d, FALSE, "registry", {}, "no compatible version")
    ELSE LET versionInfo == versions[i]
             next == AddLoop(d, dependency, version, force, beta, versions, i + 1)
         IN  IF version # <<>> /\ version # versionInfo.version_number THEN next
             ELSE IF ~PlatformCompatible(versionInfo) THEN next
             ELSE IF ~force /\ ~GameVersionCompatible(versionInfo) THEN next
             ELSE IF FindPrimary(versionInfo.files, 1) = 0 THEN next
             ELSE IF BetaSkipped(versionInfo, beta) THEN next
             ELSE IF Lookup(d, dependency) # <<>> /\ ~force
                  \* break: the loop is left and the function throws
                  THEN AddResult(FALSE, d, FALSE, "registry", {}, "no compatible version")
             ELSE AddResult(TRUE, Put(d, dependency, versionInfo.version_number),
                            TRUE, "registry", {versionInfo}, "")

\* the Modrinth branch
AddRegistry(d, dependency, version, force, beta, down) ==
    LET modrinthProject == getModrinthProject(dependency, down) IN
    IF ~modrinthProject.ok
    THEN AddResult(FALSE, d, FALSE, "registry", {}, "unable to find on Modrinth")
    ELSE IF ~\E i \in 1..Len(modrinthProject.versions) :
                 modrinthProject.versions[i].version_number = version
    THEN AddResult(FALSE, d, FALSE, "registry", {}, "version not found")
    ELSE AddLoop(d, dependency, version, force, beta, modrinthProject.versions, 1)

addDependency(d, dependency, version, force, beta, dsk, down) ==
    IF ClassifyAdd(dependency) = "coordinate" THEN AddMaven(d, dependency, version, down)
    ELSE IF ClassifyAdd(dependency) = "local" THEN AddLocal(d, dependency, dsk)
    ELSE AddRegistry(d, dependency, version, force, beta, down)

---------------------------------------------------------------------------
(* removeDependency(project, dependency). *)

\* ok is FALSE when it throws; deps is the map written to plugin.json,
\* removed the files deleted
removeDependency(d, dependency, dsk) ==
    IF dependency = <<>> \/ Lookup(d, dependency) = <<>>
    THEN [ok |-> FALSE, deps |-> d, wrote |-> FALSE, disk |-> dsk, removed |-> {}]
    ELSE LET version == Lookup(d, dependency)
             jarPath == LibJar(dependency, version)
         IN  IF ~StartsWith(version, FILE_PREFIX)
             THEN [ ok |-> TRUE, deps |-> Delete(d, dependency), wrote |-> TRUE,
                    disk |-> dsk \ {jarPath}, removed |-> dsk \cap {jarPath} ]
             ELSE [ ok |-> TRUE, deps |-> Delete(d, dependency), wrote |-> TRUE,
                    disk |-> dsk, removed |-> {} ]

---------------------------------------------------------------------------
(* installDependencies(project, force, forcePlatform). *)

\* the running state of a pass: ok turns FALSE when it throws
\*   disk       the files that exist
\*   jars       the paths touched in this pass (const jars)
\*   written    the paths written (Deno.writeFile)
\*   fetched    the paths an artifact download was attempted for
\*   selected   <<key, versionInfo>> of the Modrinth versions materialised
\*   warned     the keys a compatibility warning was logged for
\*   processed  the keys the loop got to, in order
\*   removed    the files the garbage collection deleted
\*   gc         whether the garbage collection ran
PassStart(dsk) ==
    [ ok |-> TRUE, err |-> "", disk |-> dsk, jars |-> {}, written |-> {},
      fetched |-> {}, selected |-> {}, warned |-> {}, processed |-> <<>>,
      removed |-> {}, gc |-> FALSE ]

Throw(st, err) == [st EXCEPT !.ok = FALSE, !.err = err]

WriteFile(st, path) ==
    [st EXCEPT !.disk = @ \cup {path}, !.written = @ \cup {path}]

\* lines 684-700: the platform jar
InstallPlatform(st, forcePlatform, down) ==
    LET active == getActivePlatform(Project)
        platformPath == LibJar(<<active.platform>>, active.version)
        st1 == [st EXCEPT !.jars = @ \cup {platformPath}]
    IN  IF ~active.ok THEN Throw(st, active.err)
        ELSE IF NeedsDownload(forcePlatform, platformPath \in st.disk)
        THEN LET st2 == [st1 EXCEPT !.fetched = @ \cup {platformPath}] IN
             IF SNAPSHOTS \in down THEN Throw(st2, "unable to resolve snapshot")
             ELSE WriteFile(st2, platformPath)
        ELSE st1

\* lines 705-752: a maven: dependency
InstallMaven(st, version, force, down) ==
    LET parts == FlatSplit(Split(DropPrefix(version, MAVEN_PREFIX), ":"), "@")
        groupId == Nth(parts, 1)
        artifactId == Nth(parts, 2)
        versionId == Nth(parts, 3)
        existingJarPath == LibJar(artifactId, versionId)
        registry == FirstAnswering(Registries(Project), down)
        st1 == [st EXCEPT !.fetched = @ \cup {existingJarPath}]
    IN  IF groupId = <<>> \/ artifactId = <<>> \/ versionId = <<>>
        THEN Throw(st, "invalid maven format")
        ELSE IF ~NeedsDownload(force, existingJarPath \in st.disk)
        THEN [st EXCEPT !.jars = @ \cup {existingJarPath}]
        ELSE IF registry = "" THEN Throw(st1, "not found in registries")
        ELSE WriteFile([st1 EXCEPT !.jars = @ \cup {existingJarPath}], existingJarPath)

\* mutant: the file of a file: dependency is not put among the jars in use
InstallLocal_Untracked(st, version) ==
    LET filePath == Resolve(DropPrefix(version, FILE_PREFIX)) IN
    IF filePath \notin st.disk THEN Throw(st, "file does not exist")
    ELSE st

\* lines 754-761: a file: dependency
InstallLocal(st, version) ==
    LET filePath == Resolve(DropPrefix(version, FILE_PREFIX)) IN
    IF filePath \notin st.disk THEN Throw(st, "file does not exist")
    ELSE [st EXCEPT !.jars = @ \cup {filePath}]

\* lines 780-803: the loop over modrinthProject.versions from the i-th on;
\* file is the version whose primary file is held so far (NoVersion: none)
RECURSIVE FindFile(_, _, _, _, _, _)
FindFile(version, force, versions, i, file, warned) ==
    IF i > Len(versions) THEN [file |-> file, warned |-> warned]
    ELSE LET versionInfo == versions[i]
             exact == version # <<>> /\ version = versionInfo.version_number
             gameVersionCompatible == GameVersionCompatible(versionInfo)
             warns == warned \/ (~force /\ ~gameVersionCompatible /\ exact)
             held == IF FindPrimary(versionInfo.files, 1) = 0 THEN NoVersion
                     ELSE versionInfo
         IN  IF version # <<>> /\ version # versionInfo.version_number
             THEN FindFile(version, force, versions, i + 1, file, warned)
             ELSE IF ~PlatformCompatible(versionInfo)
             THEN FindFile(version, force, versions, i + 1, file, warned)
             ELSE IF ~force /\ ~gameVersionCompatible /\ ~exact
             THEN FindFile(version, force, versions, i + 1, file, warned)
             ELSE IF held = NoVersion
             THEN FindFile(version, force, versions, i + 1, held, warns)
             ELSE IF exact THEN [file |-> held, warned |-> warns]
             ELSE FindFile(version, force, versions, i + 1, held, warns)

\* lines 763-817: a Modrinth dependency
InstallRegistry(st, dependency, version, force, down) ==
    LET path == LibJar(dependency, version)
        exists == path \in st.disk
        st1 == [st EXCEPT !.jars = @ \cup {path}]
        modrinthProject == getModrinthProject(dependency, down)
        found == FindFile(version, force, modrinthProject.versions, 1, NoVersion, FALSE)
        st2 == [st1 EXCEPT !.warned = IF found.warned THEN @ \cup {dependency} ELSE @]
        st3 == [st2 EXCEPT !.fetched = @ \cup {path}]
    IN  IF NeedsDownload(force, exists)
        THEN IF ~modrinthProject.ok THEN Throw(st1, "unable to find on Modrinth")
             ELSE IF found.file = NoVersion THEN Throw(st2, "no compatible version")
             ELSE IF CDN \in down THEN Throw(st3, "failed to download")
             ELSE WriteFile([st3 EXCEPT !.selected = @ \cup {<<dependency, found.file>>}],
                            path)
        ELSE st1

\* one turn of the loop of line 702
InstallOne(st, dependency, version, force, down) ==
    LET st1 == [st EXCEPT !.processed = Append(@, dependency)] IN
    IF dependency = <<>> THEN st
    ELSE IF ClassifyInstall(version) = "coordinate" THEN InstallMaven(st1, version, force, down)
    ELSE IF ClassifyInstall(version) = "local" THEN InstallLocal(st1, version)
    ELSE InstallRegistry(st1, dependency, version, force, down)

\* the loop of line 702 from the i-th entry on: a throw ends it
RECURSIVE InstallLoop(_, _, _, _, _)
InstallLoop(st, d, i, force, down) ==
    IF ~st.ok \/ i > Len(d) THEN st
    ELSE InstallLoop(InstallOne(st, d[i][1], d[i][2], force, down), d, i + 1, force, down)

\* an entry of Deno.readDir(LIBS_DIR) that is a file
InLibsDir(path) == Len(path) > Len(LIBS_DIR) + 1 /\ Dirname(path) = LIBS_DIR

\* mutant: the garbage collection deletes nothing
Unused_None(st) == {}

\* lines 820-830: the files the garbage collection deletes
Unused(st) ==
    {path \in st.disk : InLibsDir(path) /\ EndsWith(path, JAR_EXT) /\ path \notin st.jars}

CollectGarbage(st) ==
    [st EXCEPT !.disk = @ \ Unused(st), !.removed = Unused(st), !.gc = TRUE]

\* mutant: the garbage collection runs although the pass has thrown
installDependencies_AlwaysCollect(d, force, forcePlatform, dsk, down) ==
    CollectGarbage(InstallLoop(InstallPlatform(PassStart(dsk), forcePlatform, down),
                               d, 1, force, down))

installDependencies(d, force, forcePlatform, dsk, down) ==
    LET st1 == InstallPlatform(PassStart(dsk), forcePlatform, down)
        st2 == InstallLoop(st1, d, 1, force, down)
    IN  IF st2.ok THEN CollectGarbage(st2) ELSE st2

---------------------------------------------------------------------------
(* The plugin.yml manifest of buildProject, lines 339-358.  A value is     *)
(* undefined, a string or an array of strings; an object is a function     *)
(* from the keys it has to their values.                                   *)

Undefined == [t |-> "undefined", s |-> "", a |-> <<>>]

Str(s) == [t |-> "string", s |-> s, a |-> <<>>]

Arr(a) == [t |-> "array", s |-> "", a |-> a]

\* whether a value is truthy: an array is, whatever it holds
Truthy(v) == (v.t = "string" /\ v.s # "") \/ v.t = "array"

\* {}
EmptyObject == [k \in {} |-> Undefined]

\* obj[key], undefined for a key the object has not
Get(obj, key) == IF key \in DOMAIN obj THEN obj[key] ELSE Undefined

\* obj[key] = value
SetKey(obj, key, value) ==
    [k \in DOMAIN obj \cup {key} |-> IF k = key THEN value ELSE obj[k]]

\* delete obj[key]
DeleteKey(obj, key) == [k \in DOMAIN obj \ {key} |-> obj[k]]

\* trimObject of an object: the entries whose value is undefined are
\* dropped, every other value is kept (a string as it is; an array of
\* strings has no undefined element to drop)
trimObject(value) ==
    [k \in {key \in DOMAIN value : value[key].t # "undefined"} |-> value[k]]

\* mutant: deepMerge with arrays: "replace"
deepMerge_ArraysReplace(record, other) ==
    [ k \in DOMAIN record \cup DOMAIN other |->
        IF k \notin DOMAIN other THEN record[k] ELSE other[k] ]

\* deepMerge(record, other, { arrays: "merge" }): a key of other wins over
\* the same key of record, two arrays are concatenated, record's first
deepMerge(record, other) ==
    [ k \in DOMAIN record \cup DOMAIN other |->
        IF k \notin DOMAIN other THEN record[k]
        ELSE IF k \in DOMAIN record /\ record[k].t = "array" /\ other[k].t = "array"
             THEN Arr(record[k].a \o other[k].a)
        ELSE other[k] ]

\* lines 341-348
DEFAULT_PLUGIN_YML(project) ==
    [ name |-> Get(project, "name"),
      version |-> Get(project, "version"),
      main |-> Get(project, "main"),
      description |-> Get(project, "description"),
      authors |-> Get(project, "authors"),
      registries |-> IF Truthy(Get(project, "registries"))
                     THEN Get(project, "registries") ELSE Arr(<<>>) ]

\* mutant: the singular author is dropped and never put on the list
pluginYamlObject_AuthorDropped(parsedYaml, project) ==
    LET deleted == DeleteKey(parsedYaml, "author")
        authors == IF Truthy(Get(deleted, "authors")) THEN Get(deleted, "authors")
                   ELSE Arr(<<>>)
    IN  deepMerge(SetKey(deleted, "authors", authors),
                  trimObject(DEFAULT_PLUGIN_YML(project)))

\* lines 350-358: pluginYamlObject, from the parsed plugin.yml resource
\* ({} when the project has none) and the project
pluginYamlObject(parsedYaml, project) ==
    LET singleAuthor == Get(parsedYaml, "author")
        deleted == DeleteKey(parsedYaml, "author")
        authors == IF Truthy(Get(deleted, "authors")) THEN Get(deleted, "authors")
                   ELSE Arr(<<>>)
        unshifted == IF Truthy(singleAuthor) THEN Arr(<<singleAuthor.s>> \o authors.a)
                     ELSE authors
    IN  deepMerge(SetKey(deleted, "authors", unshifted),
                  trimObject(DEFAULT_PLUGIN_YML(project)))

\* an object literal: the keys given a value
Object(fields) == [k \in {key \in DOMAIN fields : fields[key] # Undefined} |-> fields[k]]

\* the plugin.yml resources a project may have (none: {})
Fragments ==
    { Object([name |-> n, author |-> a, authors |-> as, description |-> d]) :
        n \in {Undefined, Str("a")},
        a \in {Undefined, Str(""), Str("Z")},
        as \in {Undefined, Arr(<<>>), Arr(<<"X">>), Arr(<<"X", "Y">>)},
        d \in {Undefined, Str("of the fragment")} }

\* the projects plugin.json may declare
Projects ==
    { Object([name |-> n, version |-> Str("0.1.0"), main |-> Str("demo.Main"),
              description |-> d, authors |-> as, registries |-> rs]) :
        n \in {Str("a"), Str("b")},
        d \in {Undefined, Str(""), Str("of the project")},
        as \in {Undefined, Arr(<<>>), Arr(<<"Y">>), Arr(<<"X">>)},
        rs \in {Undefined, Arr(<<R1>>)} }

NoManifestInput == [fragment |-> EmptyObject, project |-> EmptyObject]

NotMerged == [merged |-> FALSE, yml |-> EmptyObject]

\* buildProject, lines 339-358: the manifest is merged
MergeManifest ==
    /\ ~mOut.merged
    /\ mOut' = [merged |-> TRUE, yml |-> pluginYamlObject(mIn.fragment, mIn.project)]
    /\ UNCHANGED <<deps, disk, pc, cmd, last, clsIn, clsOut, mIn, fIn, fOut>>

InitMerge ==
    /\ deps = <<>>
    /\ disk = {}
    /\ pc = "idle"
    /\ cmd = [force |-> FALSE, beta |-> FALSE]
    /\ last = [op |-> "none"]
    /\ clsIn = <<>>
    /\ clsOut = NotClassified
    /\ mIn \in [fragment : Fragments, project : Projects]
    /\ mOut = NotMerged
    /\ fIn = NoArguments
    /\ fOut = NoResult

NextMerge == MergeManifest

SpecMerge == InitMerge /\ [][NextMerge]_vars

---------------------------------------------------------------------------
(* The commands of the CLI that manage dependencies. *)

\* the record of a function call kept in last; afterPass tells that the
\* call before it was a pass of installDependencies that returned
NoCall ==
    [ op |-> "none", ok |-> TRUE, afterPass |-> FALSE, force |-> FALSE,
      forcePlatform |-> FALSE,
      beta |-> FALSE, name |-> <<>>, version |-> <<>>, kind |-> "", err |-> "",
      depsBefore |-> <<>>, diskBefore |-> {}, jars |-> {}, written |-> {},
      fetched |-> {}, selected |-> {}, warned |-> {}, processed |-> <<>>,
      removed |-> {}, gc |-> FALSE ]

PassCall(st, force, forcePlatform, beta) ==
    [ NoCall EXCEPT !.op = "install", !.ok = st.ok, !.err = st.err,
      !.afterPass = (last.op = "install" /\ last.ok), !.force = force, !.beta = beta,
      !.forcePlatform = forcePlatform, !.depsBefore = deps, !.diskBefore = disk,
      !.jars = st.jars, !.written = st.written, !.fetched = st.fetched,
      !.selected = st.selected, !.warned = st.warned, !.processed = st.processed,
      !.removed = st.removed, !.gc = st.gc ]

\* the calls `install <plugin>[@version] [--force] [--beta]` of the model:
\* <<plugin, version, force, beta>>, version "" when none is given
InstallCalls ==
    ({<<"we">>} \X {<<>>, <<"4b">>} \X {FALSE} \X BOOLEAN)
    \cup ({<<"we">>} \X {<<"1">>, <<"3">>} \X BOOLEAN \X {FALSE})
    \cup ({<<"we">>} \X {<<"2">>, <<"4b">>} \X {TRUE} \X {TRUE})
    \cup ({<<"nf">>} \X {<<"1">>} \X {FALSE} \X {FALSE})
    \cup ({<<"maven", ":", "g", ":", "lib">>} \X {<<"1">>} \X BOOLEAN \X {FALSE})
    \cup ({<<"maven", ":", "g", ":", "lib">>} \X {<<>>} \X {FALSE} \X {FALSE})
    \cup ({<<".", "/", "libs", "/", "x", ".", "jar">>} \X {<<>>} \X BOOLEAN \X {FALSE})
    \cup ({<<"file", ":", "libs", "/", "x", ".", "jar">>} \X {<<>>} \X {FALSE} \X {FALSE})

\* the hosts addDependency contacts for a plugin
AddHosts(pluginName) ==
    IF ClassifyAdd(pluginName) = "coordinate" THEN Range(Registries(Project))
    ELSE IF ClassifyAdd(pluginName) = "local" THEN {}
    ELSE {MODRINTH_API}

\* the hosts a pass of installDependencies over a map may contact
PassHosts(d) ==
    {SNAPSHOTS}
    \cup (IF \E i \in 1..Len(d) : ClassifyInstall(d[i][2]) = "coordinate"
          THEN Range(Registries(Project)) ELSE {})
    \cup (IF \E i \in 1..Len(d) : ClassifyInstall(d[i][2]) = "registry"
          THEN {MODRINTH_API, CDN} ELSE {})

\* pluginArg as typed: `${name}@${version}`, or the name alone
PluginArg(a) == IF a[2] = <<>> THEN a[1] ELSE a[1] \o <<"@">> \o a[2]

\* `install [--force]`, lines 1047-1050: installDependencies(project, force,
\* force)
CmdInstall(force, down) ==
    /\ pc = "idle"
    /\ \E st \in {installDependencies(deps, force, force, disk, down)} :
       /\ disk' = st.disk
       /\ last' = PassCall(st, force, force, FALSE)
    /\ UNCHANGED <<deps, pc, cmd, clsIn, clsOut, mIn, mOut, fIn, fOut>>

\* `install <plugin>[@version]`, lines 1032-1042: addDependency
CmdInstallAdd(arg, force, beta, down) ==
    /\ pc = "idle"
    /\ \E pluginName \in {Nth(Split(arg, "@"), 1)},
          pluginVersion \in {Nth(Split(arg, "@"), 2)} :
       \E r \in {addDependency(deps, pluginName, pluginVersion, force, beta, disk, down)} :
           /\ pluginName # <<>>
           /\ Len(r.deps) <= MaxDeps
           /\ deps' = r.deps
           /\ pc' = IF r.ok THEN "install" ELSE "idle"
           /\ cmd' = [force |-> r.ok /\ force, beta |-> r.ok /\ beta]
           /\ last' = [ NoCall EXCEPT !.op = "add", !.ok = r.ok, !.force = force,
                        !.beta = beta, !.name = pluginName, !.version = pluginVersion,
                        !.kind = r.kind, !.err = r.err, !.depsBefore = deps, !.diskBefore = disk,
                        !.selected = {<<pluginName, v>> : v \in r.selected} ]
    /\ UNCHANGED <<disk, clsIn, clsOut, mIn, mOut, fIn, fOut>>

\* `install <plugin>[@version]`, lines 1045-1046: installDependencies(project,
\* force, false) once addDependency has returned
CmdInstallPass(down) ==
    /\ pc = "install"
    /\ \E st \in {installDependencies(deps, cmd.force, FALSE, disk, down)} :
       /\ disk' = st.disk
       /\ last' = PassCall(st, cmd.force, FALSE, cmd.beta)
    /\ pc' = "idle"
    /\ cmd' = [force |-> FALSE, beta |-> FALSE]
    /\ UNCHANGED <<deps, clsIn, clsOut, mIn, mOut, fIn, fOut>>

\* `remove <plugin>`, lines 1097-1115
CmdRemove(pluginName) ==
    /\ pc = "idle"
    /\ \E r \in {removeDependency(deps, pluginName, disk)} :
       /\ deps' = r.deps
       /\ disk' = r.disk
       /\ last' = [ NoCall EXCEPT !.op = "remove", !.ok = r.ok, !.name = pluginName,
                    !.version = Lookup(deps, pluginName),
                    !.depsBefore = deps, !.diskBefore = disk, !.removed = r.removed ]
    /\ UNCHANGED <<pc, cmd, clsIn, clsOut, mIn, mOut, fIn, fOut>>

\* the keys a declared map of the model may hold, with the values they take
DeclaredEntries ==
    { <<<<"we">>, <<"1">>>>, <<<<"we">>, <<"3">>>>, <<<<"we">>, <<"4b">>>>,
      <<<<"we">>, <<"9">>>>,
      <<<<"lib">>, <<"maven", ":", "g", ":", "lib", "@", "1">>>>,
      <<<<"x">>, <<"file", ":", "libs", "/", "x", ".", "jar">>>> }

\* the maps plugin.json may declare as a project is checked out
Declarations ==
    { d \in UNION {[1..n -> DeclaredEntries] : n \in 0..MaxDeps} :
        \A i, j \in 1..Len(d) : i # j => d[i][1] # d[j][1] }

Init ==
    /\ deps \in Declarations
    /\ disk \in {{NotesFile}, {NotesFile, LocalJar}}
    /\ pc = "idle"
    /\ cmd = [force |-> FALSE, beta |-> FALSE]
    /\ last = NoCall
    /\ clsIn = <<>>
    /\ clsOut = NotClassified
    /\ mIn = NoManifestInput
    /\ mOut = NotMerged
    /\ fIn = NoArguments
    /\ fOut = NoResult

Next ==
    \/ \E force \in BOOLEAN, down \in DownSets(PassHosts(deps)) : CmdInstall(force, down)
    \/ \E c \in InstallCalls : \E down \in DownSets(AddHosts(c[1])) :
          CmdInstallAdd(PluginArg(c), c[3], c[4], down)
    \/ \E down \in DownSets(PassHosts(deps)) : CmdInstallPass(down)
    \/ \E name \in {<<"we">>, <<"lib">>, <<"x">>, <<"nf">>} : CmdRemove(name)

Spec == Init /\ [][Next]_vars

---------------------------------------------------------------------------
(* The sites that classify a dependency specifier, each applied to a       *)
(* specifier drawn from a set of strings.                                  *)

\* what a specifier starts with
SpecifierPrefixes ==
    {<<>>, MAVEN_PREFIX, FILE_PREFIX, <<".", "/">>, <<".", ".", "/">>, <<"/">>}

\* what follows
SpecifierBodies ==
    { <<>>, <<"foo">>, <<"g", ":", "a", "@", "1", ".", "0">>,
      <<"libs", "/", "x", ".", "jar">>, <<".", "/", "libs", "/", "x", ".", "jar">> }

Specifiers == {p \o b : p \in SpecifierPrefixes, b \in SpecifierBodies}

\* addDependency, lines 557 and 590
ClassifyAtAdd ==
    /\ clsOut.add = ""
    /\ clsOut' = [clsOut EXCEPT !.add = ClassifyAdd(clsIn)]
    /\ UNCHANGED <<deps, disk, pc, cmd, last, clsIn, mIn, mOut, fIn, fOut>>

\* installDependencies, lines 705 and 754
ClassifyAtInstall ==
    /\ clsOut.install = ""
    /\ clsOut' = [clsOut EXCEPT !.install = ClassifyInstall(clsIn)]
    /\ UNCHANGED <<deps, disk, pc, cmd, last, clsIn, mIn, mOut, fIn, fOut>>

\* buildProject, lines 363 and 374
ClassifyAtBuild ==
    /\ clsOut.build = ""
    /\ clsOut' = [clsOut EXCEPT !.build = ClassifyBuild(clsIn)]
    /\ UNCHANGED <<deps, disk, pc, cmd, last, clsIn, mIn, mOut, fIn, fOut>>

\* generateClassPath, lines 185 and 187
ClassifyAtClassPath ==
    /\ clsOut.classPath = ""
    /\ clsOut' = [clsOut EXCEPT !.classPath = ClassifyClassPath(clsIn)]
    /\ UNCHANGED <<deps, disk, pc, cmd, last, clsIn, mIn, mOut, fIn, fOut>>

InitClassify ==
    /\ deps = <<>>
    /\ disk = {}
    /\ pc = "idle"
    /\ cmd = [force |-> FALSE, beta |-> FALSE]
    /\ last = [op |-> "none"]
    /\ clsIn \in Specifiers
    /\ clsOut = NotClassified
    /\ mIn = NoManifestInput
    /\ mOut = NotMerged
    /\ fIn = NoArguments
    /\ fOut = NoResult

NextClassify ==
    \/ ClassifyAtAdd
    \/ ClassifyAtInstall
    \/ ClassifyAtBuild
    \/ ClassifyAtClassPath

SpecClassify == InitClassify /\ [][NextClassify]_vars

---------------------------------------------------------------------------
(* jarToObject(jarPath, exclude, include), lines 251-301, applied to an    *)
(* archive: the sequence of its entries, each a fileName and its data.     *)

\* the segments of a path or of a glob: path.split("/")
Segments(path) == Split(path, "/")

\* whether a segment matches a segment of a glob, "*" standing for any run
\* of characters of the segment
RECURSIVE MatchSegment(_, _)
MatchSegment(pat, seg) ==
    IF pat = <<>> THEN seg = <<>>
    ELSE IF Head(pat) = "*"
         THEN MatchSegment(Tail(pat), seg)
              \/ (seg # <<>> /\ MatchSegment(pat, Tail(seg)))
    ELSE seg # <<>> /\ Head(pat) = Head(seg) /\ MatchSegment(Tail(pat), Tail(seg))

\* whether the segments of a path match those of a glob, "**" standing for
\* any number of segments, none included
RECURSIVE MatchSegments(_, _)
MatchSegments(pats, segs) ==
    IF pats = <<>> THEN segs = <<>>
    ELSE IF Head(pats) = <<"**">>
         THEN MatchSegments(Tail(pats), segs)
              \/ (segs # <<>> /\ MatchSegments(pats, Tail(segs)))
    ELSE segs # <<>> /\ MatchSegment(Head(pats), Head(segs))
         /\ MatchSegments(Tail(pats), Tail(segs))

\* globToRegExp(pat).test(name)
GlobTest(pat, name) == MatchSegments(Segments(pat), Segments(name))

\* an optional list of globs: given is FALSE for undefined
NoGlobs == [given |-> FALSE, globs |-> <<>>]

Globs(globs) == [given |-> TRUE, globs |-> globs]

\* list?.some(pat => globToRegExp(pat).test(name))
SomeGlob(list, name) ==
    list.given /\ \E i \in 1..Len(list.globs) : GlobTest(list.globs[i], name)

\* lines 264-279: whether an entry is skipped
EntrySkipped(name, exclude, include) ==
    \/ EndsWith(name, <<"/">>)
    \/ SomeGlob(exclude, name)
    \/ (include.given /\ ~SomeGlob(include, name))

\* line 290: the key an entry is stored under
ResultKey(name) == Basename(name)

\* the 'entry' handler run on the entries from the i-th on
RECURSIVE ReadEntries(_, _, _, _, _)
ReadEntries(entries, i, exclude, include, result) ==
    IF i > Len(entries) THEN result
    ELSE IF EntrySkipped(entries[i].fileName, exclude, include)
         THEN ReadEntries(entries, i + 1, exclude, include, result)
    ELSE ReadEntries(entries, i + 1, exclude, include,
                     SetKey(result, ResultKey(entries[i].fileName), entries[i].data))

jarToObject(entries, exclude, include) ==
    ReadEntries(entries, 1, exclude, include, EmptyObject)

PLUGIN_YML == <<"plugin", ".", "yml">>

META_INF == <<"META", "-", "INF", "/", "**", "/", "*">>

ANY_FILE == <<"**", "/", "*">>

\* the entries an archive of the model may hold, in the order of the archive
ArchiveEntries ==
    << [fileName |-> <<"META", "-", "INF", "/">>, data |-> ""],
       [fileName |-> <<"META", "-", "INF", "/", "MANIFEST", ".", "MF">>, data |-> "manifest"],
       [fileName |-> PLUGIN_YML, data |-> "name: libX"],
       [fileName |-> <<"com", "/">>, data |-> ""],
       [fileName |-> <<"com", "/", "Foo", ".", "class">>, data |-> "class Foo"],
       [fileName |-> <<"docs", "/", "plugin", ".", "yml">>, data |-> "name: docs"] >>

\* the entries of a sequence whose index is in a set, in order
RECURSIVE Pick(_, _, _)
Pick(entries, i, chosen) ==
    IF i > Len(entries) THEN <<>>
    ELSE (IF i \in chosen THEN <<entries[i]>> ELSE <<>>) \o Pick(entries, i + 1, chosen)

Archives == {Pick(ArchiveEntries, 1, chosen) : chosen \in SUBSET (1..Len(ArchiveEntries))}

ExcludeLists ==
    { NoGlobs, Globs(<<>>), Globs(<<META_INF>>),
      Globs(<<META_INF, <<"docs", "/", "**">>>>) }

IncludeLists ==
    { NoGlobs, Globs(<<PLUGIN_YML>>), Globs(<<PLUGIN_YML, ANY_FILE>>),
      Globs(<<<<"**", "/", "*", ".", "class">>>>) }

\* jarToObject is called on an archive
CallJarToObject ==
    /\ ~fOut.returned
    /\ fOut' = [returned |-> TRUE,
                result |-> jarToObject(fIn.entries, fIn.exclude, fIn.include)]
    /\ UNCHANGED <<deps, disk, pc, cmd, last, clsIn, clsOut, mIn, mOut, fIn>>

InitJar ==
    /\ deps = <<>>
    /\ disk = {}
    /\ pc = "idle"
    /\ cmd = [force |-> FALSE, beta |-> FALSE]
    /\ last = [op |-> "none"]
    /\ clsIn = <<>>
    /\ clsOut = NotClassified
    /\ mIn = NoManifestInput
    /\ mOut = NotMerged
    /\ fIn \in [fn : {"jarToObject"}, entries : Archives,
                exclude : ExcludeLists, include : IncludeLists]
    /\ fOut = NoResult

NextJar == CallJarToObject

SpecJar == InitJar /\ [][NextJar]_vars

---------------------------------------------------------------------------
(* The manifest buildProject generates, lines 339-430: the merge, then the *)
(* dependency names found in the fragment and in the archives of the       *)
(* declared dependencies.                                                  *)

\* a string the code splits, held as its lexemes ("," and " " among them)
Text(lexemes) == [t |-> "text", s |-> "", a |-> lexemes]

\* String.prototype.trim
RECURSIVE Trim(_)
Trim(s) ==
    IF s # <<>> /\ Head(s) = " " THEN Trim(Tail(s))
    ELSE IF s # <<>> /\ s[Len(s)] = " " THEN Trim(SubSeq(s, 1, Len(s) - 1))
    ELSE s

\* a name as an element of a list: the names of the model are one lexeme
NameOf(lexemes) == IF lexemes = <<>> THEN "" ELSE lexemes[1]

\* parseYaml(data)?.name: the name a plugin.yml declares, "" when the data
\* is empty or declares none
YamlName(data) ==
    IF data = "name: libX" THEN <<"libX">>
    ELSE IF data = "name: Vault" THEN <<"Vault">>
    ELSE IF data = "name: ' libX '" THEN <<" ", "libX", " ">>
    ELSE IF data = "name: docs" THEN <<"docs">>
    ELSE <<>>

\* project.shading?.[key]: given is FALSE for undefined
NoShading == [given |-> FALSE, exclude |-> NoGlobs, include |-> NoGlobs]

\* lines 362-397: the archive of a declared dependency read by jarToObject
DependencyJar(dependency) ==
    LET shading == IF dependency.shading.given THEN dependency.shading
                   ELSE [given |-> TRUE, exclude |-> NoGlobs,
                         include |-> Globs(<<PLUGIN_YML>>)]
        exclude == Globs(<<META_INF>> \o shading.exclude.globs)
        include == IF shading.include.given
                   THEN Globs(<<PLUGIN_YML>> \o shading.include.globs)
                   ELSE Globs(<<PLUGIN_YML, ANY_FILE>>)
    IN  jarToObject(dependency.archive, exclude, include)

\* the strings of a sequence of lexeme strings, trimmed
TrimAll(parts) == [i \in 1..Len(parts) |-> NameOf(Trim(parts[i]))]

\* lines 401-423 from the i-th dependency on: names is dependencyNames,
\* shaded the files written to the build directory, warned the keys warned of
RECURSIVE CollectNames(_, _, _)
CollectNames(dependencies, i, acc) ==
    IF i > Len(dependencies) THEN acc
    ELSE LET dependency == dependencies[i]
             jarObject == DependencyJar(dependency)
             data == IF PLUGIN_YML \in DOMAIN jarObject THEN jarObject[PLUGIN_YML] ELSE ""
             name == YamlName(data)
             shaded == IF dependency.shading.given THEN DOMAIN jarObject ELSE {}
             silent == dependency.shading.given
                       \/ ClassifyBuild(dependency.value) = "coordinate"
         IN  CollectNames(dependencies, i + 1,
                [ names |-> IF name # <<>>
                            THEN Dedup(acc.names \o <<NameOf(Trim(name))>>, {})
                            ELSE acc.names,
                  shaded |-> acc.shaded \cup shaded,
                  warned |-> IF name = <<>> /\ ~silent
                             THEN acc.warned \cup {dependency.key} ELSE acc.warned ])

\* lines 339-430: the manifest written to the build directory; ok is FALSE
\* when the build throws
generateManifest(fragment, project, dependencies, version) ==
    LET merged == pluginYamlObject(fragment, project)
        declared == Get(merged, "dependencies")
        start == IF declared.t = "undefined" THEN <<>>
                 ELSE Dedup(TrimAll(Split(declared.a, ",")), {})
        found == CollectNames(dependencies, 1,
                              [names |-> start, shaded |-> {}, warned |-> {}])
    IN  IF declared.t \notin {"undefined", "text"}
        \* an array has no split: TypeError
        THEN [ merged |-> TRUE, ok |-> FALSE, yml |-> merged, shaded |-> {},
               warned |-> {} ]
        ELSE [ merged |-> TRUE, ok |-> TRUE,
               yml |-> SetKey(SetKey(merged, "dependencies", Arr(found.names)),
                              "api_version", Text(version)),
               shaded |-> found.shaded, warned |-> found.warned ]

\* the dependencies a project of the model may declare, with their archives
DependencyPool ==
    { [ key |-> <<"libX">>, value |-> <<"1">>, shading |-> NoShading,
        archive |-> Pick(ArchiveEntries, 1, {2, 3, 5}) ],
      [ key |-> <<"vault">>, value |-> FILE_PREFIX \o LocalJar, shading |-> NoShading,
        archive |-> << [fileName |-> PLUGIN_YML, data |-> "name: Vault"] >> ],
      [ key |-> <<"lib">>, value |-> <<"maven", ":", "g", ":", "lib", "@", "1">>,
        shading |-> NoShading, archive |-> Pick(ArchiveEntries, 1, {2, 5}) ],
      [ key |-> <<"raw">>, value |-> <<"2">>, shading |-> NoShading,
        archive |-> << [fileName |-> PLUGIN_YML, data |-> "version: 1"] >> ],
      [ key |-> <<"quoted">>, value |-> <<"3">>, shading |-> NoShading,
        archive |-> << [fileName |-> PLUGIN_YML, data |-> "name: ' libX '"] >> ],
      [ key |-> <<"shaded">>, value |-> <<"4">>,
        shading |-> [given |-> TRUE, exclude |-> NoGlobs, include |-> Globs(<<ANY_FILE>>)],
        archive |-> Pick(ArchiveEntries, 1, {2, 5}) ] }

\* the most dependencies a project of the manifest model declares
MaxJars == 2

DependencyLists ==
    { d \in UNION {[1..n -> DependencyPool] : n \in 0..MaxJars} :
        \A i, j \in 1..Len(d) : i # j => d[i].key # d[j].key }

\* the forms the dependencies field of the plugin.yml resource takes
DependencyFields ==
    { Undefined, Text(<<"Vault">>), Text(<<"Vault", ",", " ", "libX">>),
      Text(<<" ", "Vault", " ", ",", "Vault">>), Arr(<<"Vault">>),
      Arr(<<"Vault", "libX">>) }

ManifestFragments ==
    {Object([name |-> Str("a"), dependencies |-> d]) : d \in DependencyFields}

ManifestProject ==
    Object([name |-> Str("demo"), version |-> Str("0.1.0"), main |-> Str("demo.Main"),
            description |-> Undefined, authors |-> Undefined, registries |-> Undefined])

\* buildProject, lines 339-430: the manifest is generated
GenerateManifest ==
    /\ ~mOut.merged
    /\ mOut' = generateManifest(mIn.fragment, mIn.project, mIn.dependencies,
                                getActivePlatform(Project).version)
    /\ UNCHANGED <<deps, disk, pc, cmd, last, clsIn, clsOut, mIn, fIn, fOut>>

InitManifest ==
    /\ deps = <<>>
    /\ disk = {}
    /\ pc = "idle"
    /\ cmd = [force |-> FALSE, beta |-> FALSE]
    /\ last = [op |-> "none"]
    /\ clsIn = <<>>
    /\ clsOut = NotClassified
    /\ mIn \in [fragment : ManifestFragments, project : {ManifestProject},
                dependencies : DependencyLists]
    /\ mOut = NotMerged
    /\ fIn = NoArguments
    /\ fOut = NoResult

NextManifest == GenerateManifest

SpecManifest == InitManifest /\ [][NextManifest]_vars

---------------------------------------------------------------------------
(* The command line, lines 837-1293: one invocation of pluggy at a time,   *)
(* over the project declarations on disk (deps: for each file, whether it  *)
(* exists, and the version and dependency map it declares) and the other   *)
(* files and directories of the project (disk).  refreshEclipse and the    *)
(* prompts are left out: every prompt is answered yes.                     *)

\* line 24: CONFIG_FILE
CONFIG_FILE == <<"plugin", ".", "json">>

\* the path the model gives --config-file
ALT_CONFIG == <<"alt", ".", "json">>

DIST_DIR == <<"dist">>

BUILD_DIR == <<"bin">>

SourceFile == <<"src", "/", "Main", ".", "java">>

\* whether a path is inside a directory
Under(dir, path) == StartsWith(path, dir \o <<"/">>)

\* Deno.remove(dir, { recursive: true }).catch(() => { })
RemoveAll(dsk, dir) == {path \in dsk : path # dir /\ ~Under(dir, path)}

\* join(DIST_DIR, `${project.name}-${project.version}.jar`)
DistJar(name, version) == Join(DIST_DIR, name \o <<"-">> \o version \o JAR_EXT)

\* a project file that does not exist
NoFile == [exists |-> FALSE, version |-> <<>>, dependencies |-> <<>>]

ProjectFile(version, dependencies) ==
    [exists |-> TRUE, version |-> version, dependencies |-> dependencies]

\* the file an invocation takes the project declaration from: rootArgs holds
\* "config-file" (line 32) and nothing reads it
ConfigFile(rootArgs) == CONFIG_FILE

\* what an invocation comes to: the exit code, whether log.error was called,
\* the files left, the project files read and written, the step of the build
\* that failed ("" when none did)
Exit(code, error, files, dsk, read, wrote, step) ==
    [ exit |-> code, error |-> error, files |-> files, disk |-> dsk,
      read |-> read, wrote |-> wrote, step |-> step ]

\* mutant: buildProject leaves what is in the distribution directory
ClearDist_Keep(dsk) == dsk \cup {DIST_DIR}

\* lines 456-457
ClearDist(dsk) == RemoveAll(dsk, DIST_DIR) \cup {DIST_DIR}

\* buildProject, lines 303-475: ok is FALSE when it throws, step tells where
buildProject(project, dsk, env) ==
    LET cleared == RemoveAll(dsk, BUILD_DIR) \cup {BUILD_DIR}
        copied == cleared \cup {Join(BUILD_DIR, <<"config", ".", "yml">>)}
        manifest == generateManifest(EmptyObject, ManifestProject, <<>>,
                                     getActivePlatform(Project).version)
        written == copied \cup {Join(BUILD_DIR, PLUGIN_YML)}
        compiled == written \cup {Join(BUILD_DIR, <<"Main", ".", "class">>)}
        emptied == ClearDist(compiled)
    IN  IF ~getActivePlatform(Project).ok
        THEN [ok |-> FALSE, step |-> "platform", disk |-> dsk]
        ELSE IF ~env.resources THEN [ok |-> FALSE, step |-> "resources", disk |-> cleared]
        ELSE IF ~manifest.ok THEN [ok |-> FALSE, step |-> "manifest", disk |-> copied]
        ELSE IF SourceFile \notin dsk THEN [ok |-> FALSE, step |-> "sources", disk |-> written]
        ELSE IF ~env.javac THEN [ok |-> FALSE, step |-> "javac", disk |-> written]
        ELSE IF ~env.jar THEN [ok |-> FALSE, step |-> "jar", disk |-> emptied]
        ELSE [ ok |-> TRUE, step |-> "",
               disk |-> emptied \cup {DistJar(<<"demo">>, project.version)} ]

\* `init`, lines 853-947 and initProject: args.name and args.main are "" when
\* not given, "bad" when they fail the pattern of lines 914-927
initCommand(rootArgs, args, files, dsk) ==
    LET version == IF args.version = <<>> THEN <<"0", ".", "1", ".", "0">> ELSE args.version
        file == CONFIG_FILE
    IN  IF args.name = "bad"
        THEN Exit(1, TRUE, files, dsk, {}, {}, "")
        ELSE IF args.main = "nodot"
        \* initProject throws: the main class has no package
        THEN Exit(1, TRUE, files, dsk, {}, {}, "")
        ELSE Exit(0, FALSE, [files EXCEPT ![file] = ProjectFile(version, <<>>)],
                  dsk \cup {SourceFile}, {}, {file}, "")

\* `build`, lines 948-994
buildCommand(rootArgs, args, files, dsk, env) ==
    LET projectFilePath == ConfigFile(rootArgs)
        project == files[projectFilePath]
        made == dsk \cup {BUILD_DIR, DIST_DIR}
        pass == installDependencies(project.dependencies, args.force, args.force,
                                    made, env.down)
        built == buildProject(project, pass.disk, env)
    IN  IF ~project.exists
        THEN Exit(1, TRUE, files, dsk, {}, {}, "config")
        ELSE IF ~pass.ok
        THEN Exit(1, TRUE, files, pass.disk, {projectFilePath}, {}, "install")
        ELSE IF ~built.ok
        THEN Exit(1, TRUE, files, built.disk, {projectFilePath}, {}, built.step)
        ELSE Exit(0, FALSE, files, built.disk, {projectFilePath}, {}, "")

\* `install [plugin][@version]`, lines 995-1058
installCommand(rootArgs, args, files, dsk, env) ==
    LET projectFilePath == ConfigFile(rootArgs)
        project == files[projectFilePath]
        pluginName == Nth(Split(args.plugin, "@"), 1)
        pluginVersion == Nth(Split(args.plugin, "@"), 2)
        added == addDependency(project.dependencies, pluginName, pluginVersion,
                               args.force, FALSE, dsk, env.down)
        \* addDependency writes CONFIG_FILE
        saved == [files EXCEPT ![CONFIG_FILE] =
                     ProjectFile(project.version, added.deps)]
        passAdded == installDependencies(added.deps, args.force, FALSE, dsk, env.down)
        passAll == installDependencies(project.dependencies, args.force, args.force,
                                       dsk, env.down)
    IN  IF ~project.exists
        THEN Exit(1, TRUE, files, dsk, {}, {}, "")
        ELSE IF args.plugin = <<>>
        THEN Exit(IF passAll.ok THEN 0 ELSE 1, ~passAll.ok, files, passAll.disk,
                  {projectFilePath}, {}, "")
        ELSE IF pluginName = <<>>
        THEN Exit(1, TRUE, files, dsk, {projectFilePath}, {}, "")
        ELSE IF ~added.ok
        THEN Exit(1, TRUE, files, dsk, {projectFilePath}, {}, "")
        ELSE Exit(IF passAdded.ok THEN 0 ELSE 1, ~passAdded.ok, saved, passAdded.disk,
                  {projectFilePath}, {CONFIG_FILE}, "")

\* `remove <plugin>`, lines 1059-1123
removeCommand(rootArgs, args, files, dsk) ==
    LET projectFilePath == ConfigFile(rootArgs)
        project == files[projectFilePath]
        removed == removeDependency(project.dependencies, args.plugin, dsk)
        \* removeDependency writes CONFIG_FILE
        saved == [files EXCEPT ![CONFIG_FILE] =
                     ProjectFile(project.version, removed.deps)]
    IN  IF args.plugin = <<>>
        \* rootArgs._.length === 1: the usage is shown
        THEN Exit(0, FALSE, files, dsk, {}, {}, "")
        ELSE IF ~project.exists
        THEN Exit(1, TRUE, files, dsk, {}, {}, "")
        ELSE IF Lookup(project.dependencies, args.plugin) = <<>>
        THEN Exit(1, TRUE, files, dsk, {projectFilePath}, {}, "")
        ELSE Exit(0, FALSE, saved, removed.disk, {projectFilePath}, {CONFIG_FILE}, "")

\* `info <plugin>`, lines 1124-1189
infoCommand(rootArgs, args, files, dsk, env) ==
    IF args.plugin = <<>>
    \* rootArgs._.length === 1: the usage is shown, line 1141 is not reached
    THEN Exit(0, FALSE, files, dsk, {}, {}, "")
    ELSE IF ~getModrinthProject(Nth(Split(args.plugin, "@"), 1), env.down).ok
    \* getModrinthProject throws
    THEN Exit(1, TRUE, files, dsk, {}, {}, "")
    ELSE Exit(0, FALSE, files, dsk, {}, {}, "")

\* an unknown command, lines 1245-1257: log.error, then the usage of line
\* 1261 on, and the process ends by itself
defaultCommand(rootArgs, files, dsk) == Exit(0, TRUE, files, dsk, {}, {}, "")

\* lines 844-1292
main(rootArgs, args, files, dsk, env) ==
    IF rootArgs.command = "init" THEN initCommand(rootArgs, args, files, dsk)
    ELSE IF rootArgs.command = "build" THEN buildCommand(rootArgs, args, files, dsk, env)
    ELSE IF rootArgs.command = "install" THEN installCommand(rootArgs, args, files, dsk, env)
    ELSE IF rootArgs.command = "remove" THEN removeCommand(rootArgs, args, files, dsk)
    ELSE IF rootArgs.command = "info" THEN infoCommand(rootArgs, args, files, dsk, env)
    ELSE IF rootArgs.command = "" THEN Exit(0, FALSE, files, dsk, {}, {}, "")
    ELSE defaultCommand(rootArgs, files, dsk)

NoArgs ==
    [plugin |-> <<>>, force |-> FALSE, name |-> "", main |-> "", version |-> <<>>]

\* what runs well in the environment of an invocation
FairWeather == [down |-> {}, resources |-> TRUE, javac |-> TRUE, jar |-> TRUE]

\* the record of an invocation kept in last
Invocation(rootArgs, args, r) ==
    [ op |-> rootArgs.command, configFile |-> rootArgs.configFile, args |-> args,
      exit |-> r.exit, error |-> r.error, read |-> r.read, wrote |-> r.wrote,
      step |-> r.step, diskBefore |-> disk, filesBefore |-> deps ]

Run(rootArgs, args, env) ==
    /\ \E r \in {main(rootArgs, args, deps, disk, env)} :
          /\ deps' = r.files
          /\ disk' = r.disk
          /\ last' = Invocation(rootArgs, args, r)
    /\ UNCHANGED <<pc, cmd, clsIn, clsOut, mIn, mOut, fIn, fOut>>

RootArgs(command) == {[command |-> command, configFile |-> c] : c \in BOOLEAN}

RunInit ==
    \E rootArgs \in RootArgs("init"),
       name \in {"", "bad"}, mainClass \in {"", "nodot"},
       version \in {<<>>, <<"0", ".", "2", ".", "0">>} :
       Run(rootArgs, [NoArgs EXCEPT !.name = name, !.main = mainClass, !.version = version],
           FairWeather)

RunBuild ==
    \E rootArgs \in RootArgs("build"), force \in BOOLEAN,
       down \in DownSets({SNAPSHOTS}),
       resources \in BOOLEAN, javac \in BOOLEAN, jar \in BOOLEAN :
       Run(rootArgs, [NoArgs EXCEPT !.force = force],
           [down |-> down, resources |-> resources, javac |-> javac, jar |-> jar])

RunInstall ==
    \E rootArgs \in RootArgs("install"),
       plugin \in {<<>>, <<"@", "1">>, <<"we", "@", "1">>, <<"nf", "@", "1">>},
       down \in DownSets({SNAPSHOTS, MODRINTH_API}) :
       Run(rootArgs, [NoArgs EXCEPT !.plugin = plugin], [FairWeather EXCEPT !.down = down])

RunRemove ==
    \E rootArgs \in RootArgs("remove"), plugin \in {<<>>, <<"we">>} :
       Run(rootArgs, [NoArgs EXCEPT !.plugin = plugin], FairWeather)

RunInfo ==
    \E rootArgs \in RootArgs("info"), plugin \in {<<>>, <<"we">>},
       down \in DownSets({MODRINTH_API}) :
       Run(rootArgs, [NoArgs EXCEPT !.plugin = plugin], [FairWeather EXCEPT !.down = down])

RunOther ==
    \E command \in {"", "biuld"} : \E rootArgs \in RootArgs(command) :
       Run(rootArgs, NoArgs, FairWeather)

InitCli ==
    /\ deps \in [ {CONFIG_FILE, ALT_CONFIG} ->
                    {NoFile, ProjectFile(<<"0", ".", "1", ".", "0">>, <<>>)} ]
    /\ disk \in {{}, {SourceFile}}
    /\ pc = "idle"
    /\ cmd = [force |-> FALSE, beta |-> FALSE]
    /\ last = [op |-> "none"]
    /\ clsIn = <<>>
    /\ clsOut = NotClassified
    /\ mIn = NoManifestInput
    /\ mOut = NotMerged
    /\ fIn = NoArguments
    /\ fOut = NoResult

NextCli ==
    \/ RunInit
    \/ RunBuild
    \/ RunInstall
    \/ RunRemove
    \/ RunInfo
    \/ RunOther

SpecCli == InitCli /\ [][NextCli]_vars

---------------------------------------------------------------------------
(* getActivePlatform on the platform lists a plugin.json may declare. *)

MaxPlatforms == 3

\* platform identifiers: the two of PLATFORMS and two it does not know
PlatformNames == {"paper", "spigot", "bukkit", "fabric"}

PlatformLists ==
    UNION {[1..n -> PlatformNames] : n \in 0..MaxPlatforms}

VersionLists == {<<>>, <<V121>>, <<V120, V121>>}

CallGetActivePlatform ==
    /\ ~fOut.returned
    /\ \E r \in {getActivePlatform(fIn)} :
          fOut' = [ returned |-> TRUE, ok |-> r.ok, err |-> r.err,
                    platform |-> r.platform, version |-> r.version ]
    /\ UNCHANGED <<deps, disk, pc, cmd, last, clsIn, clsOut, mIn, mOut, fIn>>

InitPlatform ==
    /\ deps = <<>>
    /\ disk = {}
    /\ pc = "idle"
    /\ cmd = [force |-> FALSE, beta |-> FALSE]
    /\ last = [op |-> "none"]
    /\ clsIn = <<>>
    /\ clsOut = NotClassified
    /\ mIn = NoManifestInput
    /\ mOut = NotMerged
    /\ fIn \in [fn : {"getActivePlatform"}, platforms : PlatformLists,
                versions : VersionLists]
    /\ fOut = NoResult

NextPlatform == CallGetActivePlatform

SpecPlatform == InitPlatform /\ [][NextPlatform]_vars

---------------------------------------------------------------------------
(* The platform snapshot metadata at the two places that resolve it:       *)
(* initProject (lines 148-179) and the head of installDependencies.        *)

\* line 149: the version initProject falls back to
FALLBACK_VERSION == <<"1", ".", "21", ".", "7">>

\* line 113
DEFAULT_VERSION == <<"0", ".", "1", ".", "0">>

\* line 114
DEFAULT_MAIN == "com.example.Main"

\* getLatestVersion("paper"), lines 43-47: metadata.target, or a rejection
getLatestVersion(down) ==
    IF SNAPSHOTS \in down THEN [ok |-> FALSE, target |-> <<>>]
    ELSE [ok |-> TRUE, target |-> V121]

\* mutant: initProject lets the rejection of getLatestVersion through
initProject_NoFallback(args, dsk, down) ==
    LET latest == getLatestVersion(down)
        mainClass == IF args.main = "" THEN DEFAULT_MAIN ELSE args.main
        project == [ version |-> IF args.version = <<>> THEN DEFAULT_VERSION
                                 ELSE args.version,
                     main |-> mainClass, versions |-> <<latest.target>> ]
    IN  IF ~latest.ok \/ mainClass = "nodot"
        THEN [ok |-> FALSE, disk |-> dsk, project |-> project]
        ELSE [ok |-> TRUE, disk |-> dsk \cup {CONFIG_FILE, SourceFile}, project |-> project]

\* initProject, lines 148-179: args.main is "" when not given and "nodot"
\* when it names a class without a package
initProject(args, dsk, down) ==
    LET latest == getLatestVersion(down)
        latestSnapshot == IF latest.ok THEN latest.target ELSE FALLBACK_VERSION
        mainClass == IF args.main = "" THEN DEFAULT_MAIN ELSE args.main
        project == [ version |-> IF args.version = <<>> THEN DEFAULT_VERSION
                                 ELSE args.version,
                     main |-> mainClass, versions |-> <<latestSnapshot>> ]
    IN  IF mainClass = "nodot"
        THEN [ok |-> FALSE, disk |-> dsk, project |-> project]
        ELSE [ok |-> TRUE, disk |-> dsk \cup {CONFIG_FILE, SourceFile}, project |-> project]

\* libs/<platform>-<version>.jar of the project under test
ActivePlatformPath ==
    LibJar(<<getActivePlatform(Project).platform>>, getActivePlatform(Project).version)

InitProjectInputs ==
    [ fn : {"initProject"}, main : {"", "nodot", "org.demo.Plugin"},
      version : {<<>>, <<"0", ".", "2", ".", "0">>},
      down : SUBSET {SNAPSHOTS},
      disk : {{}, {CONFIG_FILE}, {CONFIG_FILE, SourceFile}} ]

InstallInputs ==
    [ fn : {"installDependencies"},
      dependencies : {<<>>, << <<<<"we">>, <<"1">>>> >>},
      force : BOOLEAN, forcePlatform : BOOLEAN,
      down : SUBSET {SNAPSHOTS, CDN},
      disk : {{}, {ActivePlatformPath}, {ActivePlatformPath, LibJar(<<"we">>, <<"1">>)}} ]

CallInitProject ==
    /\ fIn.fn = "initProject"
    /\ ~fOut.returned
    /\ \E r \in {initProject(fIn, fIn.disk, fIn.down)} :
          fOut' = [ returned |-> TRUE, ok |-> r.ok, disk |-> r.disk,
                    project |-> r.project, written |-> r.disk \ fIn.disk ]
    /\ UNCHANGED <<deps, disk, pc, cmd, last, clsIn, clsOut, mIn, mOut, fIn>>

CallInstallDependencies ==
    /\ fIn.fn = "installDependencies"
    /\ ~fOut.returned
    /\ \E st \in {installDependencies(fIn.dependencies, fIn.force, fIn.forcePlatform,
                                      fIn.disk, fIn.down)} :
          fOut' = [ returned |-> TRUE, ok |-> st.ok, disk |-> st.disk,
                    err |-> st.err, written |-> st.written ]
    /\ UNCHANGED <<deps, disk, pc, cmd, last, clsIn, clsOut, mIn, mOut, fIn>>

InitResolve ==
    /\ deps = <<>>
    /\ disk = {}
    /\ pc = "idle"
    /\ cmd = [force |-> FALSE, beta |-> FALSE]
    /\ last = [op |-> "none"]
    /\ clsIn = <<>>
    /\ clsOut = NotClassified
    /\ mIn = NoManifestInput
    /\ mOut = NotMerged
    /\ fIn \in InitProjectInputs \cup InstallInputs
    /\ fOut = NoResult

NextResolve ==
    \/ CallInitProject
    \/ CallInstallDependencies

SpecResolve == InitResolve /\ [][NextResolve]_vars

---------------------------------------------------------------------------
(* The build output tree of buildProject, lines 307-430: the files written *)
(* under the build directory, each with what was written to it last.       *)

\* the content of a file of the tree: a processed resource, the data of an
\* archive entry, or the generated manifest
ResourceContent(resource) == [kind |-> "resource", of |-> resource, data |-> ""]

EntryContent(key, data) == [kind |-> "entry", of |-> key, data |-> data]

ManifestContent(yml) == [kind |-> "manifest", of |-> <<>>, data |-> yml]

\* what buildProject has done so far: tree is the build directory, copies the
\* archive entries written into it, inspected what jarToObject read of each
\* dependency
TreeStart ==
    [ ok |-> TRUE, step |-> "", tree |-> EmptyObject, copies |-> {}, inspected |-> {} ]

\* lines 311-332 from the i-th resource on: resources is the sequence of the
\* keys of project.resources, unreadable those whose file cannot be read
RECURSIVE CopyResources(_, _, _, _)
CopyResources(st, resources, unreadable, i) ==
    IF i > Len(resources) THEN st
    ELSE IF resources[i] \in unreadable
         THEN [st EXCEPT !.ok = FALSE, !.step = "resources"]
    ELSE CopyResources(
            [st EXCEPT !.tree = SetKey(@, Join(BUILD_DIR, resources[i]),
                                        ResourceContent(resources[i]))],
            resources, unreadable, i + 1)

\* lines 407-414: the files of jarObject written to the build directory
ShadedCopies(dependency, jarObject) ==
    IF dependency.shading.given
    THEN { [key |-> dependency.key, file |-> file, data |-> jarObject[file]] :
             file \in DOMAIN jarObject }
    ELSE {}

\* mutant: the files of jarObject are written whether or not the dependency
\* has a shading rule
ShadeFiles_Always(st, dependency, jarObject) ==
    LET copies == { [key |-> dependency.key, file |-> file, data |-> jarObject[file]] :
                      file \in DOMAIN jarObject }
    IN  [ st EXCEPT
            !.copies = @ \cup copies,
            !.tree = [ path \in DOMAIN @ \cup {Join(BUILD_DIR, c.file) : c \in copies} |->
                         IF \E c \in copies : Join(BUILD_DIR, c.file) = path
                         THEN EntryContent(dependency.key,
                                  (CHOOSE c \in copies : Join(BUILD_DIR, c.file) = path).data)
                         ELSE @[path] ] ]

\* lines 403-415 for one dependency
ShadeFiles(st, dependency, jarObject) ==
    LET copies == ShadedCopies(dependency, jarObject)
    IN  [ st EXCEPT
            !.copies = @ \cup copies,
            !.tree = [ path \in DOMAIN @ \cup {Join(BUILD_DIR, c.file) : c \in copies} |->
                         IF \E c \in copies : Join(BUILD_DIR, c.file) = path
                         THEN EntryContent(dependency.key,
                                  (CHOOSE c \in copies : Join(BUILD_DIR, c.file) = path).data)
                         ELSE @[path] ] ]

\* lines 401-423 from the i-th dependency on, as far as files go
RECURSIVE ShadeDependencies(_, _, _)
ShadeDependencies(st, dependencies, i) ==
    IF i > Len(dependencies) THEN st
    ELSE LET jarObject == DependencyJar(dependencies[i])
             seen == [st EXCEPT !.inspected =
                         @ \cup {[key |-> dependencies[i].key, files |-> DOMAIN jarObject]}]
         IN  ShadeDependencies(ShadeFiles(seen, dependencies[i], jarObject),
                               dependencies, i + 1)

\* mutant: the manifest is written before the dependencies are shaded
populateBuildDir_ManifestFirst(project, dependencies, unreadable) ==
    LET copied == CopyResources(TreeStart, project.resources, unreadable, 1)
        fragment == IF \E i \in 1..Len(project.resources) : project.resources[i] = PLUGIN_YML
                    THEN project.fragment ELSE EmptyObject
        manifest == generateManifest(fragment, ManifestProject, dependencies,
                                     getActivePlatform(Project).version)
        written == [copied EXCEPT !.tree = SetKey(@, Join(BUILD_DIR, PLUGIN_YML),
                                                  ManifestContent(manifest.yml))]
        shaded == ShadeDependencies(written, dependencies, 1)
    IN  IF ~copied.ok THEN copied
        ELSE IF ~manifest.ok THEN [copied EXCEPT !.ok = FALSE, !.step = "manifest"]
        ELSE shaded

\* buildProject, lines 307-430: the build directory up to the manifest
populateBuildDir(project, dependencies, unreadable) ==
    LET copied == CopyResources(TreeStart, project.resources, unreadable, 1)
        fragment == IF \E i \in 1..Len(project.resources) : project.resources[i] = PLUGIN_YML
                    THEN project.fragment ELSE EmptyObject
        manifest == generateManifest(fragment, ManifestProject, dependencies,
                                     getActivePlatform(Project).version)
        shaded == ShadeDependencies(copied, dependencies, 1)
    IN  IF ~copied.ok THEN copied
        ELSE IF ~manifest.ok THEN [copied EXCEPT !.ok = FALSE, !.step = "manifest"]
        ELSE [shaded EXCEPT !.tree = SetKey(@, Join(BUILD_DIR, PLUGIN_YML),
                                            ManifestContent(manifest.yml))]

\* the archive of the shading model: ArchiveEntries and a second Foo.class
ShadeArchive ==
    ArchiveEntries \o << [fileName |-> <<"org", "/", "Foo", ".", "class">>,
                          data |-> "class org.Foo"] >>

CLASS_FILES == <<"**", "/", "*", ".", "class">>

\* the dependencies of the shading model: one without a shading rule, and
\* rules of an include list, of an exclude list, of both
ShadePool ==
    { [ key |-> <<"libX">>, value |-> <<"1">>, shading |-> NoShading,
        archive |-> ShadeArchive ],
      [ key |-> <<"all">>, value |-> <<"2">>,
        shading |-> [given |-> TRUE, exclude |-> NoGlobs, include |-> Globs(<<ANY_FILE>>)],
        archive |-> ShadeArchive ],
      [ key |-> <<"classes">>, value |-> <<"3">>,
        shading |-> [given |-> TRUE, exclude |-> Globs(<<<<"docs", "/", "**">>>>),
                     include |-> Globs(<<CLASS_FILES>>)],
        archive |-> ShadeArchive ],
      [ key |-> <<"nodocs">>, value |-> <<"4">>,
        shading |-> [given |-> TRUE, exclude |-> Globs(<<<<"docs", "/", "**">>>>),
                     include |-> NoGlobs],
        archive |-> Pick(ArchiveEntries, 1, {2, 3, 5, 6}) ] }

ShadeLists ==
    { d \in UNION {[1..n -> ShadePool] : n \in 0..MaxJars} :
        \A i, j \in 1..Len(d) : i # j => d[i].key # d[j].key }

CONFIG_YML == <<"config", ".", "yml">>

ResourceLists == {<<>>, <<CONFIG_YML>>, <<PLUGIN_YML>>, <<CONFIG_YML, PLUGIN_YML>>}

CallPopulateBuildDir ==
    /\ fIn.fn = "buildProject"
    /\ ~fOut.returned
    /\ \E st \in {populateBuildDir(fIn.project, fIn.dependencies, fIn.unreadable)} :
          fOut' = [ returned |-> TRUE, ok |-> st.ok, step |-> st.step, tree |-> st.tree,
                    copies |-> st.copies, inspected |-> st.inspected ]
    /\ UNCHANGED <<deps, disk, pc, cmd, last, clsIn, clsOut, mIn, mOut, fIn>>

InitShade ==
    /\ deps = <<>>
    /\ disk = {}
    /\ pc = "idle"
    /\ cmd = [force |-> FALSE, beta |-> FALSE]
    /\ last = [op |-> "none"]
    /\ clsIn = <<>>
    /\ clsOut = NotClassified
    /\ mIn = NoManifestInput
    /\ mOut = NotMerged
    /\ fIn \in [ fn : {"buildProject"},
                 project : [ resources : ResourceLists,
                             fragment : {Object([name |-> Str("a")])} ],
                 dependencies : ShadeLists,
                 unreadable : {{}, {CONFIG_YML}} ]
    /\ fOut = NoResult

NextShade == CallPopulateBuildDir

SpecShade == InitShade /\ [][NextShade]_vars

---------------------------------------------------------------------------
(* Two invocations against one project directory: each reads plugin.json   *)
(* (lines 1028-1029, 1088-1089), then, after the awaits of addDependency   *)
(* or removeDependency, writes it back whole (lines 579, 607, 647, 665).   *)
(* deps is the persisted dependency map, cmd the command of each           *)
(* invocation, pc its position, last the copies held in memory.            *)

Invocations == {1, 2}

\* mutant: the write is lost
writeTextFile_Lost(content, data) == content

\* Deno.writeTextFile(CONFIG_FILE, JSON.stringify(project, null, 2)): the
\* content of the file after the write
writeTextFile(content, data) == data

\* the commands of the two invocations: each adds or removes one dependency
RaceCommands ==
    { [op |-> "install", name |-> <<"we">>, version |-> <<"1">>],
      [op |-> "install", name |-> <<"we">>, version |-> <<"3">>],
      [op |-> "remove", name |-> <<"we">>, version |-> <<>>],
      [op |-> "install", name |-> <<"maven", ":", "g", ":", "lib">>, version |-> <<"1">>],
      [op |-> "remove", name |-> <<"lib">>, version |-> <<>>] }

\* the key of the dependency map a command is about
KeyOf(command) ==
    IF command.name = <<"maven", ":", "g", ":", "lib">> THEN <<"lib">> ELSE command.name

\* the mutation a command makes to the project it has read; an install is
\* given --force
Mutate(command, project) ==
    IF command.op = "install"
    THEN addDependency(project, command.name, command.version, TRUE, FALSE, {}, {})
    ELSE removeDependency(project, command.name, {})

\* an invocation reads plugin.json
ReadProject(i) ==
    /\ pc[i] = "start"
    /\ pc' = [pc EXCEPT ![i] = "read"]
    /\ last' = [last EXCEPT !.memory[i] = deps]
    /\ UNCHANGED <<deps, disk, cmd, clsIn, clsOut, mIn, mOut, fIn, fOut>>

\* an invocation changes its copy and writes it to plugin.json, or fails
\* without writing
WriteProject(i) ==
    /\ pc[i] = "read"
    /\ \E r \in {Mutate(cmd[i], last.memory[i])} :
          /\ deps' = IF r.wrote THEN writeTextFile(deps, r.deps) ELSE deps
          /\ last' = [ last EXCEPT !.memory[i] = r.deps,
                                   !.wrote = IF r.wrote THEN @ \cup {i} ELSE @,
                                   !.writer = IF r.wrote THEN i ELSE @ ]
    /\ pc' = [pc EXCEPT ![i] = "done"]
    /\ UNCHANGED <<disk, cmd, clsIn, clsOut, mIn, mOut, fIn, fOut>>

RaceDeclarations ==
    { <<>>,
      << <<<<"we">>, <<"1">>>> >>,
      << <<<<"lib">>, <<"maven", ":", "g", ":", "lib", "@", "1">>>> >>,
      << <<<<"we">>, <<"1">>>>, <<<<"lib">>, <<"maven", ":", "g", ":", "lib", "@", "1">>>> >> }

InitRace ==
    /\ deps \in RaceDeclarations
    /\ disk = {}
    /\ pc = [i \in Invocations |-> "start"]
    /\ cmd \in {c \in [Invocations -> RaceCommands] : KeyOf(c[1]) # KeyOf(c[2])}
    /\ last = [memory |-> [i \in Invocations |-> <<>>], wrote |-> {}, writer |-> 0]
    /\ clsIn = <<>>
    /\ clsOut = NotClassified
    /\ mIn = NoManifestInput
    /\ mOut = NotMerged
    /\ fIn = NoArguments
    /\ fOut = NoResult

NextRace ==
    \/ \E i \in Invocations : ReadProject(i)
    \/ \E i \in Invocations : WriteProject(i)

SpecRace == InitRace /\ [][NextRace]_vars

---------------------------------------------------------------------------
(* addDependency on the maps a project may declare, one call at a time.    *)

\* the dependency maps of the calls: a key declared as a Modrinth version,
\* as a coordinate, as a local file
AddDeclarations ==
    { <<>>,
      << <<<<"we">>, <<"1">>>> >>,
      << <<<<"lib">>, <<"maven", ":", "g", ":", "lib", "@", "1">>>> >>,
      << <<<<"lib">>, <<"1">>>> >>,
      << <<<<"x">>, <<"file", ":", "libs", "/", "x", ".", "jar">>>> >>,
      << <<<<"x">>, <<"file", ":", "old", "/", "x", ".", "jar">>>> >>,
      << <<<<"x">>, <<"2">>>>, <<<<"we">>, <<"3">>>> >> }

\* <<dependency, version>> as the install command splits `name@version`
AddCalls ==
    { <<<<"we">>, <<"1">>>>, <<<<"we">>, <<"3">>>>, <<<<"we">>, <<>>>>,
      <<<<"maven", ":", "g", ":", "lib">>, <<"1">>>>,
      <<<<"maven", ":", "g", ":", "lib">>, <<"2">>>>,
      <<<<".", "/", "libs", "/", "x", ".", "jar">>, <<>>>>,
      <<<<"file", ":", "libs", "/", "x", ".", "jar">>, <<>>>> }

CallAddDependency ==
    /\ fIn.fn = "addDependency"
    /\ ~fOut.returned
    /\ \E r \in {addDependency(fIn.dependencies, fIn.call[1], fIn.call[2], fIn.force,
                               fIn.beta, fIn.disk, fIn.down)} :
          fOut' = [ returned |-> TRUE, ok |-> r.ok, wrote |-> r.wrote, kind |-> r.kind,
                    persisted |-> IF r.wrote THEN r.deps ELSE fIn.dependencies ]
    /\ UNCHANGED <<deps, disk, pc, cmd, last, clsIn, clsOut, mIn, mOut, fIn>>

InitAdd ==
    /\ deps = <<>>
    /\ disk = {}
    /\ pc = "idle"
    /\ cmd = [force |-> FALSE, beta |-> FALSE]
    /\ last = [op |-> "none"]
    /\ clsIn = <<>>
    /\ clsOut = NotClassified
    /\ mIn = NoManifestInput
    /\ mOut = NotMerged
    /\ fIn \in [ fn : {"addDependency"}, dependencies : AddDeclarations, call : AddCalls,
                 force : BOOLEAN, beta : {FALSE},
                 disk : {{}, {LocalJar}}, down : {{}, {MODRINTH_API}, {R1}} ]
    /\ fOut = NoResult

NextAdd == CallAddDependency

SpecAdd == InitAdd /\ [][NextAdd]_vars

---------------------------------------------------------------------------
(* The registries of a maven: dependency in installDependencies, lines     *)
(* 711-752: each registry answers the fetch of the artifact with the       *)
(* artifact, with a response that is not ok, or not at all (fetch throws). *)

R2 == "https://repo.example.net/releases/"

MaxRegistries == 2

RegistryPool == {R1, R2, MAVEN_CENTRAL}

RegistryLists == UNION {[1..n -> RegistryPool] : n \in 0..MaxRegistries}

Answers == {"ok", "not ok", "throws"}

\* the loop of lines 731-747 from the i-th registry on: contacted is the
\* registries fetched from, in order, logged those whose fetch threw, payload
\* the registry the artifact written to libs came from
RECURSIVE FetchArtifact(_, _, _, _)
FetchArtifact(registries, answers, i, st) ==
    IF i > Len(registries) THEN st
    ELSE LET registry == registries[i]
             asked == [st EXCEPT !.contacted = Append(@, registry)]
         IN  IF answers[registry] = "ok"
             THEN [asked EXCEPT !.found = TRUE, !.payload = registry]
             ELSE IF answers[registry] = "throws"
             THEN FetchArtifact(registries, answers, i + 1,
                                [asked EXCEPT !.logged = @ \cup {registry}])
             ELSE FetchArtifact(registries, answers, i + 1, asked)

\* lines 711-752 for a dependency whose jar is not in libs: ok is FALSE when
\* the function throws
fetchFromRegistries(project, answers) ==
    FetchArtifact(Registries(project), answers, 1,
                  [found |-> FALSE, payload |-> "", contacted |-> <<>>, logged |-> {}])

CallFetchFromRegistries ==
    /\ fIn.fn = "installDependencies"
    /\ ~fOut.returned
    /\ \E r \in {fetchFromRegistries(fIn.project, fIn.answers)} :
          fOut' = [ returned |-> TRUE, ok |-> r.found, payload |-> r.payload,
                    contacted |-> r.contacted, logged |-> r.logged,
                    written |-> IF r.found THEN {LibJar(<<"lib">>, <<"1">>)} ELSE {} ]
    /\ UNCHANGED <<deps, disk, pc, cmd, last, clsIn, clsOut, mIn, mOut, fIn>>

InitRegistries ==
    /\ deps = << <<<<"lib">>, <<"maven", ":", "g", ":", "lib", "@", "1">>>> >>
    /\ disk = {}
    /\ pc = "idle"
    /\ cmd = [force |-> FALSE, beta |-> FALSE]
    /\ last = [op |-> "none"]
    /\ clsIn = <<>>
    /\ clsOut = NotClassified
    /\ mIn = NoManifestInput
    /\ mOut = NotMerged
    /\ fIn \in [ fn : {"installDependencies"},
                 project : [registries : RegistryLists],
                 answers : [RegistryPool -> Answers] ]
    /\ fOut = NoResult

NextRegistries == CallFetchFromRegistries

SpecRegistries == InitRegistries /\ [][NextRegistries]_vars

---------------------------------------------------------------------------
(* Properties of the dependency manager, checked under Spec. *)

\* the jar files of the libs directory
LibJars(dsk) == {path \in dsk : InLibsDir(path) /\ EndsWith(path, JAR_EXT)}

\* the path installDependencies materialises a declared dependency at
ArtifactPath(key, value) ==
    IF ClassifyInstall(value) = "coordinate"
    THEN LET parts == FlatSplit(Split(DropPrefix(value, MAVEN_PREFIX), ":"), "@")
         IN  LibJar(Nth(parts, 2), Nth(parts, 3))
    ELSE IF ClassifyInstall(value) = "local" THEN Resolve(DropPrefix(value, FILE_PREFIX))
    ELSE LibJar(key, value)

PlatformPath ==
    LibJar(<<getActivePlatform(Project).platform>>, getActivePlatform(Project).version)

Incompatible(versionInfo) ==
    versionInfo.game_versions \cap Range(Project.versions) = {}

\* C1: a pass of installDependencies without force that follows a pass that
\* returned, on the same declared map, leaves the jar files of the libs
\* directory as they were, and downloads, writes and deletes nothing.
C1_Idempotent ==
    (last.op = "install" /\ last.afterPass /\ ~last.force /\ ~last.forcePlatform)
    => /\ last.ok
       /\ LibJars(disk) = LibJars(last.diskBefore)
       /\ disk = last.diskBefore
       /\ last.fetched = {}
       /\ last.written = {}
       /\ last.removed = {}

\* C1 witness: a second pass without force over a map of a Modrinth and a
\* Maven dependency whose jars the first pass left in libs
C1_Witness ==
    /\ last.op = "install" /\ last.afterPass /\ ~last.force /\ last.ok
    /\ \E i, j \in 1..Len(deps) :
          /\ ClassifyInstall(deps[i][2]) = "registry"
          /\ ClassifyInstall(deps[j][2]) = "coordinate"
          /\ {ArtifactPath(deps[i][1], deps[i][2]),
              ArtifactPath(deps[j][1], deps[j][2]), PlatformPath} \subseteq disk

RECURSIVE FirstAdmitted(_, _, _, _)
FirstAdmitted(versions, i, force, beta) ==
    IF i > Len(versions) THEN NoVersion
    ELSE IF /\ versions[i].loaders \cap Range(Project.platforms) # {}
            /\ (force \/ ~Incompatible(versions[i]))
            /\ (beta \/ versions[i].version_type = "release")
            /\ \E k \in 1..Len(versions[i].files) : versions[i].files[k].primary
         THEN versions[i]
    ELSE FirstAdmitted(versions, i + 1, force, beta)

\* C4: addDependency of a Modrinth plugin that is not declared yet, with no
\* version given and Modrinth answering, records the first version of the
\* list that satisfies the constraints, and fails only when there is none.
C4_LatestCompatibleRecorded ==
    ( /\ last.op = "add" /\ last.kind = "registry" /\ last.version = <<>>
      /\ last.name = <<"we">> /\ ~HasKey(last.depsBefore, <<"we">>)
      /\ last.err # "unable to find on Modrinth" )
    => LET first == FirstAdmitted(WeVersions, 1, last.force, last.beta) IN
       IF first = NoVersion THEN ~last.ok
       ELSE /\ last.ok
            /\ last.selected = {<<last.name, first>>}
            /\ Lookup(deps, last.name) = first.version_number

\* C5, as claimed: a version whose game versions do not intersect the
\* project's is recorded by addDependency or materialised by
\* installDependencies only in force mode.
C5_IncompatibleOnlyForced ==
    \A s \in last.selected : Incompatible(s[2]) => last.force

\* C5, amended: addDependency records a version whose game versions do not
\* intersect the project's only in force mode; installDependencies
\* materialises the declared version number, compatible or not, with or
\* without force, and logs the warning exactly when force is not set.
C5_IncompatibleExactVersion ==
    /\ last.op = "add" => \A s \in last.selected : Incompatible(s[2]) => last.force
    /\ last.op = "install" =>
          \A s \in last.selected :
             /\ s[2].version_number = Lookup(last.depsBefore, s[1])
             /\ Incompatible(s[2]) => (s[1] \in last.warned <=> ~last.force)

\* C5 witness: a pass without force has materialised an incompatible version
C5_Witness ==
    /\ last.op = "install" /\ ~last.force /\ last.ok
    /\ \E s \in last.selected : Incompatible(s[2]) /\ s[1] \in last.warned

\* C6, as claimed: without --beta neither addDependency records nor a pass
\* of installDependencies materialises a version tagged beta or alpha.
C6_NoBetaUnlessRequested ==
    \A s \in last.selected : s[2].version_type # "release" => last.beta

\* C6, amended: without --beta addDependency records no version tagged beta
\* or alpha; a pass of installDependencies looks at no maturity tag and
\* materialises the declared version whatever its tag.
C6_NoBetaRecordedUnlessRequested ==
    /\ last.op = "add" =>
          \A s \in last.selected : s[2].version_type # "release" => last.beta
    /\ last.op = "install" =>
          \A i \in 1..Len(last.processed) :
             LET key == last.processed[i]
                 value == Lookup(last.depsBefore, key)
             IN  ( /\ ClassifyInstall(value) = "registry"
                   /\ LibJar(key, value) \in last.written )
                 => \E s \in last.selected : s[1] = key /\ s[2].version_number = value

\* C6 witness: a pass run without --beta has materialised a beta version
C6_Witness ==
    /\ last.op = "install" /\ ~last.beta /\ last.ok
    /\ \E s \in last.selected :
          s[2].version_type = "beta" /\ LibJar(s[1], s[2].version_number) \in last.written

\* the paths of the files the local dependencies of a map refer to
LocalPaths(d) ==
    { ArtifactPath(d[i][1], d[i][2]) :
        i \in {k \in 1..Len(d) : ClassifyInstall(d[k][2]) = "local"} }

\* C7: a pass of installDependencies neither downloads nor writes a file
\* that exists at its path unless force is set, forcePlatform for the
\* platform jar; the file of a local dependency is written in no mode.
C7_ExistingUntouched ==
    last.op = "install" =>
       /\ \A path \in (last.written \cup last.fetched) \cap last.diskBefore :
             IF path = PlatformPath THEN last.forcePlatform ELSE last.force
       /\ (~last.force /\ ~last.forcePlatform)
             => (last.written \cup last.fetched) \cap last.diskBefore = {}
       /\ LocalPaths(last.depsBefore) \cap (last.written \cup last.fetched) = {}

\* C7 witness: a pass without force over a map of a Modrinth and a local
\* dependency, with the platform jar and the Modrinth jar in libs before it,
\* has returned
C7_Witness ==
    /\ last.op = "install" /\ last.ok /\ ~last.force /\ ~last.forcePlatform
    /\ PlatformPath \in last.diskBefore
    /\ LocalPaths(last.depsBefore) # {}
    /\ \E i \in 1..Len(last.depsBefore) :
          /\ ClassifyInstall(last.depsBefore[i][2]) = "registry"
          /\ ArtifactPath(last.depsBefore[i][1], last.depsBefore[i][2]) \in last.diskBefore

\* C8: when a pass of installDependencies throws, the garbage collection
\* has not run and no file is deleted, and no dependency after the one that
\* failed is processed: the loop got to a prefix of the map, and nothing was
\* downloaded or written for the entries after it.
C8_FailureAborts ==
    (last.op = "install" /\ ~last.ok) =>
       LET n == Len(last.processed) IN
       /\ ~last.gc
       /\ last.removed = {}
       /\ last.diskBefore \subseteq disk
       /\ n <= Len(last.depsBefore)
       /\ \A i \in 1..n : last.processed[i] = last.depsBefore[i][1]
       /\ \A j \in (n + 1)..Len(last.depsBefore) :
             ArtifactPath(last.depsBefore[j][1], last.depsBefore[j][2])
                \notin (last.written \cup last.fetched \cup last.jars)

\* C8 witness: a pass has thrown at the first of two dependencies, with a
\* jar in libs that no entry of the map accounts for
C8_Witness ==
    /\ last.op = "install" /\ ~last.ok
    /\ Len(last.processed) = 1 /\ Len(last.depsBefore) = 2
    /\ \E path \in LibJars(disk) :
          /\ path # PlatformPath
          /\ \A i \in 1..Len(deps) : path # ArtifactPath(deps[i][1], deps[i][2])

\* C9: after removeDependency has returned for a dependency that is no local
\* file, the key is not declared and the artifact of the dependency is not
\* in libs.
C9_RemovedArtifactGone ==
    (last.op = "remove" /\ last.ok /\ ClassifyInstall(last.version) # "local")
    => /\ ~HasKey(deps, last.name)
       /\ ArtifactPath(last.name, last.version) \notin disk

---------------------------------------------------------------------------
(* Properties of the classification, checked under SpecClassify. *)

Kinds == {"registry", "coordinate", "local"}

\* the four strings of the specification
Foo == <<"foo">>

MavenGA == <<"maven", ":", "g", ":", "a", "@", "1", ".", "0">>

RelativeJar == <<".", "/", "libs", "/", "x", ".", "jar">>

FileJar == <<"file", ":", ".", "/", "libs", "/", "x", ".", "jar">>

\* C3, as claimed: every site that has classified the specifier made it one
\* of registry, coordinate, local, and both local spellings, "./libs/x.jar"
\* and "file:./libs/x.jar", are local at every site.
C3_LocalAtEverySite ==
    \A site \in DOMAIN clsOut :
       clsOut[site] # "" =>
          /\ clsOut[site] \in Kinds
          /\ clsIn \in {RelativeJar, FileJar} => clsOut[site] = "local"

\* C3, amended: every site makes a specifier exactly one of registry,
\* coordinate, local; the maven: and the local tests never both apply, so the
\* order a site asks them in does not matter and the three sites that read
\* the stored value agree; "foo" is registry and "maven:g:a@1.0" coordinate
\* everywhere, "file:./libs/x.jar" local everywhere; a path without file:
\* ("./libs/x.jar") is local at addDependency only, which stores it with
\* file:, and a registry version at the sites that read the stored value.
C3_ClassificationUnambiguous ==
    /\ \A site \in DOMAIN clsOut : clsOut[site] # "" => clsOut[site] \in Kinds
    /\ ~(/\ StartsWith(clsIn, MAVEN_PREFIX)
         /\ \/ StartsWith(clsIn, FILE_PREFIX)
            \/ StartsWith(clsIn, <<"/">>)
            \/ StartsWith(clsIn, <<".", "/">>)
            \/ StartsWith(clsIn, <<".", ".", "/">>))
    /\ \A s1, s2 \in {"install", "build", "classPath"} :
          (clsOut[s1] # "" /\ clsOut[s2] # "") => clsOut[s1] = clsOut[s2]
    /\ clsOut.add # "" =>
          /\ clsIn = Foo => clsOut.add = "registry"
          /\ clsIn = MavenGA => clsOut.add = "coordinate"
          /\ clsIn \in {RelativeJar, FileJar} => clsOut.add = "local"
          /\ clsOut.add = "coordinate" <=> StartsWith(clsIn, MAVEN_PREFIX)
    /\ \A site \in {"install", "build", "classPath"} :
          clsOut[site] # "" =>
             /\ clsIn = Foo => clsOut[site] = "registry"
             /\ clsIn = MavenGA => clsOut[site] = "coordinate"
             /\ clsIn = FileJar => clsOut[site] = "local"
             /\ clsOut[site] = "local" <=> StartsWith(clsIn, FILE_PREFIX)
             /\ clsOut[site] = "coordinate" <=> StartsWith(clsIn, MAVEN_PREFIX)

\* C3 witness: every site has classified "./libs/x.jar": addDependency as a
\* local file, the sites that read the stored value as a registry version
C3_Witness ==
    /\ clsIn = RelativeJar
    /\ clsOut.add = "local"
    /\ clsOut.install = "registry"
    /\ clsOut.build = "registry"
    /\ clsOut.classPath = "registry"

---------------------------------------------------------------------------
(* Properties of the manifest merge, checked under SpecMerge. *)

\* the authors the fragment declares: its author, then its authors
FragmentAuthors(fragment) ==
    (IF Truthy(Get(fragment, "author")) THEN <<Get(fragment, "author").s>> ELSE <<>>)
    \o (IF Get(fragment, "authors").t = "array" THEN Get(fragment, "authors").a ELSE <<>>)

\* C10: in the merged manifest a scalar field the project sets to a
\* non-empty value has the project's value, whatever the fragment says, and
\* authors is the fragment's authors followed by the project's; the fragment
\* {name: "a", authors: ["X"]} and a project of name "b" and authors ["Y"]
\* give name "b" and authors ["X", "Y"].
C10_MergeRightBiased ==
    mOut.merged =>
       LET fragment == mIn.fragment
           project == mIn.project
           yml == mOut.yml
           projectAuthors == IF Get(project, "authors").t = "array"
                             THEN Get(project, "authors").a ELSE <<>>
       IN  /\ \A k \in {"name", "version", "main", "description"} :
                 Truthy(Get(project, k)) => Get(yml, k) = Get(project, k)
           /\ Get(yml, "authors") = Arr(FragmentAuthors(fragment) \o projectAuthors)
           /\ ( /\ fragment = [name |-> Str("a"), authors |-> Arr(<<"X">>)]
                /\ Get(project, "name") = Str("b")
                /\ Get(project, "authors") = Arr(<<"Y">>) )
              => /\ yml.name = Str("b")
                 /\ yml.authors = Arr(<<"X", "Y">>)

\* C10 witness: the fragment {name: "a", authors: ["X"]} has been merged
\* with a project of name "b" and authors ["Y"]
C10_Witness ==
    /\ mOut.merged
    /\ mIn.fragment = [name |-> Str("a"), authors |-> Arr(<<"X">>)]
    /\ Get(mIn.project, "name") = Str("b")
    /\ Get(mIn.project, "authors") = Arr(<<"Y">>)
    /\ mOut.yml.name = Str("b")
    /\ mOut.yml.authors = Arr(<<"X", "Y">>)

\* whether a value is undefined or empty: "" or []
Empty(v) == v.t = "undefined" \/ (v.t = "string" /\ v.s = "") \/ (v.t = "array" /\ v.a = <<>>)

\* C11: an array field of the merged manifest holds no element twice: an
\* author both the fragment and the project name appears once in authors.
C11_ArraysDeduplicated ==
    mOut.merged =>
       \A k \in DOMAIN mOut.yml :
          mOut.yml[k].t = "array" =>
             \A i, j \in 1..Len(mOut.yml[k].a) :
                mOut.yml[k].a[i] = mOut.yml[k].a[j] => i = j

\* C12: a field the project leaves undefined or empty (undefined, "", [])
\* does not replace what the fragment sets for it: the merged manifest has
\* the fragment's value.
C12_EmptyDefaultsDropped ==
    mOut.merged =>
       \A k \in {"name", "description"} :
          (Empty(Get(mIn.project, k)) /\ ~Empty(Get(mIn.fragment, k)))
             => Get(mOut.yml, k) = Get(mIn.fragment, k)

\* C13: when the fragment names a singular author, the merged manifest has
\* no author key and its authors are that author, then the fragment's
\* authors, then the project's.
C13_AuthorFolded ==
    (mOut.merged /\ Truthy(Get(mIn.fragment, "author"))) =>
       LET fragmentAuthors == IF Get(mIn.fragment, "authors").t = "array"
                              THEN Get(mIn.fragment, "authors").a ELSE <<>>
           projectAuthors == IF Get(mIn.project, "authors").t = "array"
                             THEN Get(mIn.project, "authors").a ELSE <<>>
       IN  /\ "author" \notin DOMAIN mOut.yml
           /\ Get(mOut.yml, "authors").t = "array"
           /\ mOut.yml.authors.a
                 = <<Get(mIn.fragment, "author").s>> \o fragmentAuthors \o projectAuthors

\* C13 witness: a fragment of author "Z" and authors ["X", "Y"] has been
\* merged with a project of authors ["Y"]
C13_Witness ==
    /\ mOut.merged
    /\ Get(mIn.fragment, "author") = Str("Z")
    /\ Get(mIn.fragment, "authors") = Arr(<<"X", "Y">>)
    /\ Get(mIn.project, "authors") = Arr(<<"Y">>)
    /\ mOut.yml.authors = Arr(<<"Z", "X", "Y", "Y">>)

---------------------------------------------------------------------------
(* Properties of jarToObject, checked under SpecJar. *)

\* the names of the entries of an archive that are no directory, match no
\* exclude glob and, when an include list is given, match one of its globs
KeptNames(entries, exclude, include) ==
    { entries[i].fileName :
        i \in { k \in 1..Len(entries) :
                  /\ ~EndsWith(entries[k].fileName, <<"/">>)
                  /\ ~SomeGlob(exclude, entries[k].fileName)
                  /\ (include.given => SomeGlob(include, entries[k].fileName)) } }

\* the archive of META-INF/MANIFEST.MF, plugin.yml and com/Foo.class
ExampleArchive == Pick(ArchiveEntries, 1, {2, 3, 5})

\* C15: the keys of the mapping jarToObject returns are the names, paths
\* inside the archive, of the entries kept; with exclude META-INF/**/* and
\* include ["plugin.yml", "**/*"] on the archive of META-INF/MANIFEST.MF,
\* plugin.yml and com/Foo.class they are plugin.yml and com/Foo.class.
C15_KeysAreEntryNames ==
    fOut.returned =>
       /\ DOMAIN fOut.result = KeptNames(fIn.entries, fIn.exclude, fIn.include)
       /\ ( /\ fIn.entries = ExampleArchive
            /\ fIn.exclude = Globs(<<META_INF>>)
            /\ fIn.include = Globs(<<PLUGIN_YML, ANY_FILE>>) )
          => DOMAIN fOut.result = {PLUGIN_YML, <<"com", "/", "Foo", ".", "class">>}

---------------------------------------------------------------------------
(* Properties of the generated manifest, checked under SpecManifest. *)

\* the names the dependencies field of the fragment declares, a scalar
\* ("a, b") or a list
DeclaredNames(fragment) ==
    LET declared == Get(fragment, "dependencies") IN
    IF declared.t = "array" THEN Range(declared.a)
    ELSE IF declared.t = "text" THEN Range(TrimAll(Split(declared.a, ",")))
    ELSE {}

\* the names the plugin.yml of the archives of the dependencies declare
ArchiveNames(dependencies) ==
    { NameOf(Trim(YamlName(e.data))) :
        e \in { x \in UNION {Range(dependencies[i].archive) : i \in 1..Len(dependencies)} :
                  x.fileName = PLUGIN_YML /\ YamlName(x.data) # <<>> } }

\* C14: the build does not fail over the names, and the dependencies of the
\* generated manifest are, each once, the names the fragment declares,
\* whether as a scalar or as a list, and the names found in the plugin.yml
\* of the archives; a dependency without a name is left out.
C14_DependencyNamesUnion ==
    mOut.merged =>
       /\ mOut.ok
       /\ Get(mOut.yml, "dependencies").t = "array"
       /\ Range(mOut.yml.dependencies.a)
             = DeclaredNames(mIn.fragment) \cup ArchiveNames(mIn.dependencies)
       /\ \A i, j \in 1..Len(mOut.yml.dependencies.a) :
             mOut.yml.dependencies.a[i] = mOut.yml.dependencies.a[j] => i = j

---------------------------------------------------------------------------
(* Properties of the command line, checked under SpecCli. *)

\* what the distribution directory holds, the directory itself included
DistPaths(dsk) == {path \in dsk : path = DIST_DIR \/ Under(DIST_DIR, path)}

\* the files in the distribution directory
DistFiles(dsk) == {path \in dsk : Under(DIST_DIR, path)}

\* the steps of a build that come before the archiver
BeforeArchiver == {"resources", "sources", "javac"}

\* C16: a build that fails before the archiver runs leaves the distribution
\* directory as it was: not created when it did not exist, and holding the
\* archives it held.
C16_DistUntouchedOnFailure ==
    (last.op = "build" /\ last.step \in BeforeArchiver)
        => DistPaths(disk) = DistPaths(last.diskBefore)

C18_ExitCodeTellsFailure ==
    last.op # "none" => (last.exit = IF last.error THEN 1 ELSE 0)

\* C19: with --config-file given, the project declaration is read from and
\* rewritten at that path only.
C19_ConfigFileHonoured ==
    (last.op # "none" /\ last.configFile)
        => (last.read \subseteq {ALT_CONFIG} /\ last.wrote \subseteq {ALT_CONFIG})
---------------------------------------------------------------------------
(* Properties of getActivePlatform, checked under SpecPlatform. *)

\* the places of the list that hold a known platform
KnownAt(platforms) == {i \in 1..Len(platforms) : platforms[i] \in Range(PLATFORMS)}

\* the least of a non-empty set of numbers
Least(S) == CHOOSE i \in S : \A j \in S : i <= j

\* C20: getActivePlatform returns the first entry of the platform list that is
\* a known platform, skipping the unknown ones, and raises an error only when
\* the list holds no known platform.
C20_FirstKnownPlatform ==
    fOut.returned =>
        IF KnownAt(fIn.platforms) = {}
        THEN ~fOut.ok
        ELSE fOut.ok /\ fOut.platform = fIn.platforms[Least(KnownAt(fIn.platforms))]
---------------------------------------------------------------------------
(* Properties of snapshot resolution, checked under SpecResolve. *)

\* C21: when the snapshot metadata cannot be resolved, initProject still
\* writes the project, with the fallback version, and installDependencies
\* fails without writing the platform jar.
C21_ResolutionFailure ==
    (fOut.returned /\ SNAPSHOTS \in fIn.down) =>
        /\ (fIn.fn = "initProject" /\ fIn.main # "nodot") =>
              /\ fOut.ok
              /\ fOut.project.versions = <<FALLBACK_VERSION>>
              /\ CONFIG_FILE \in fOut.disk
        /\ ( /\ fIn.fn = "installDependencies"
             /\ (fIn.forcePlatform \/ ActivePlatformPath \notin fIn.disk) ) =>
              /\ ~fOut.ok
              /\ ActivePlatformPath \notin fOut.written

\* initProject has fallen back and written a project where there was none
C21_Witness ==
    /\ fOut.returned
    /\ fIn.fn = "initProject"
    /\ SNAPSHOTS \in fIn.down
    /\ CONFIG_FILE \notin fIn.disk
    /\ fOut.ok
    /\ CONFIG_FILE \in fOut.written
---------------------------------------------------------------------------
(* Properties of the build output tree, checked under SpecShade. *)

\* the dependency of a key among those of the call
DependencyOf(key) ==
    CHOOSE d \in Range(fIn.dependencies) : d.key = key

\* the entries of a dependency's archive its shading rule selects, as
\* buildProject hands the rule to jarToObject (lines 369-370)
SelectedEntries(dependency) ==
    LET exclude == Globs(<<META_INF>> \o dependency.shading.exclude.globs)
        include == IF dependency.shading.include.given
                   THEN Globs(<<PLUGIN_YML>> \o dependency.shading.include.globs)
                   ELSE Globs(<<PLUGIN_YML, ANY_FILE>>)
    IN  { e \in Range(dependency.archive) :
            e.fileName \in KeptNames(dependency.archive, exclude, include) }

\* C22: nothing of the archive of a dependency without a shading rule is
\* copied into the build directory, and only its plugin.yml is read.
C22_UnshadedNotCopied ==
    fOut.returned =>
       /\ \A c \in fOut.copies : DependencyOf(c.key).shading.given
       /\ \A r \in fOut.inspected :
             ~DependencyOf(r.key).shading.given => r.files \subseteq {PLUGIN_YML}
       /\ (\A i \in 1..Len(fIn.dependencies) : ~fIn.dependencies[i].shading.given)
             => \A path \in DOMAIN fOut.tree : fOut.tree[path].kind # "entry"

\* a build went through with a dependency without a shading rule whose
\* archive holds more than a plugin.yml
C22_Witness ==
    /\ fOut.returned
    /\ fOut.ok
    /\ \E i \in 1..Len(fIn.dependencies) :
          /\ ~fIn.dependencies[i].shading.given
          /\ \E e \in Range(fIn.dependencies[i].archive) :
                e.fileName = <<"com", "/", "Foo", ".", "class">>
    /\ \E r \in fOut.inspected : r.files = {PLUGIN_YML}

\* C23: every entry a shading rule selects is in the build directory at the
\* path it has in the archive, with its data; the root plugin.yml, which the
\* manifest replaces, aside.
C23_ShadedAtArchivePath ==
    (fOut.returned /\ fOut.ok /\ Len(fIn.dependencies) = 1) =>
       \A e \in SelectedEntries(fIn.dependencies[1]) :
          (fIn.dependencies[1].shading.given /\ e.fileName # PLUGIN_YML) =>
             /\ Join(BUILD_DIR, e.fileName) \in DOMAIN fOut.tree
             /\ fOut.tree[Join(BUILD_DIR, e.fileName)].data = e.data

\* C26: after the build directory is populated, its plugin.yml is the
\* manifest the build generated.
C26_ManifestIsGenerated ==
    (fOut.returned /\ fOut.ok) =>
       /\ Join(BUILD_DIR, PLUGIN_YML) \in DOMAIN fOut.tree
       /\ fOut.tree[Join(BUILD_DIR, PLUGIN_YML)]
             = ManifestContent(
                  generateManifest(
                     IF \E i \in 1..Len(fIn.project.resources) :
                           fIn.project.resources[i] = PLUGIN_YML
                     THEN fIn.project.fragment ELSE EmptyObject,
                     ManifestProject, fIn.dependencies,
                     getActivePlatform(Project).version).yml)

\* the project declares a plugin.yml resource and a shaded dependency brought
\* a plugin.yml of its own
C26_Witness ==
    /\ fOut.returned
    /\ fOut.ok
    /\ \E i \in 1..Len(fIn.project.resources) : fIn.project.resources[i] = PLUGIN_YML
    /\ \E c \in fOut.copies : c.file = PLUGIN_YML
    /\ fOut.tree[Join(BUILD_DIR, PLUGIN_YML)].kind = "manifest"
---------------------------------------------------------------------------
(* The order of the steps of buildProject, checked under SpecCli. *)

\* C24: the declared resources are copied into the build directory only once
\* the compiler has succeeded: a build that stops for want of sources or at
\* the compiler leaves no resource there.
C24_ResourcesAfterCompile ==
    (last.op = "build" /\ last.step \in {"sources", "javac"})
        => Join(BUILD_DIR, <<"config", ".", "yml">>) \notin disk
---------------------------------------------------------------------------
(* Properties of concurrent invocations, checked under SpecRace. *)

\* whether a dependency map shows the mutation of a command
Reflects(command, d) ==
    IF command.op = "install"
    THEN Lookup(d, KeyOf(command)) # <<>> /\ EndsWith(Lookup(d, KeyOf(command)), command.version)
    ELSE Lookup(d, KeyOf(command)) = <<>>

\* C25: plugin.json is rewritten whole from the copy of the invocation that
\* wrote last, whatever the other invocation has written in between.
C25_RewrittenWholesale ==
    \A i \in Invocations :
       (last.writer = i /\ pc[i] = "done") => deps = last.memory[i]

\* both invocations have written their mutation and plugin.json shows only
\* one of the two: a lost update
C25_Witness ==
    /\ \A i \in Invocations : pc[i] = "done"
    /\ last.wrote = Invocations
    /\ \E i \in Invocations : ~Reflects(cmd[i], deps)
---------------------------------------------------------------------------
(* The artifacts a build reads, checked under Spec. *)

\* the archive buildProject (lines 363-397) and generateClassPath (lines
\* 185-196) read for a declared dependency
BuildPath(key, value) ==
    IF ClassifyBuild(value) = "local" THEN Resolve(DropPrefix(value, FILE_PREFIX))
    ELSE IF ClassifyBuild(value) = "coordinate"
    THEN LET parts == FlatSplit(Split(DropPrefix(value, MAVEN_PREFIX), ":"), "@")
         IN  LibJar(Nth(parts, 2), Nth(parts, 3))
    ELSE LibJar(key, value)

\* C27: after a pass of installDependencies that returned, the archive the
\* build reads for each declared dependency exists, and so does the jar of
\* the active platform; the garbage collection deleted none of them.
C27_ArtifactsPresent ==
    (last.op = "install" /\ last.ok) =>
       /\ \A i \in 1..Len(deps) :
             /\ BuildPath(deps[i][1], deps[i][2]) \in disk
             /\ BuildPath(deps[i][1], deps[i][2]) \notin last.removed
       /\ PlatformPath \in disk
       /\ PlatformPath \notin last.removed

\* a pass has returned over a map that declares a local file inside the libs
\* directory, and its garbage collection has deleted another jar
C27_Witness ==
    /\ last.op = "install" /\ last.ok
    /\ last.removed # {}
    /\ \E i \in 1..Len(deps) :
          /\ ClassifyBuild(deps[i][2]) = "local"
          /\ InLibsDir(BuildPath(deps[i][1], deps[i][2]))
---------------------------------------------------------------------------
(* Properties of addDependency, checked under SpecAdd. *)

\* C28: without force, addDependency leaves the declared value of every key
\* the dependency map already has as it is.
C28_ExistingKeyKept ==
    (fOut.returned /\ ~fIn.force) =>
       \A i \in 1..Len(fIn.dependencies) :
          Lookup(fOut.persisted, fIn.dependencies[i][1]) = fIn.dependencies[i][2]
---------------------------------------------------------------------------
(* The install command and the persisted declaration, checked under        *)
(* SpecCli.                                                                *)

\* C29: when `install <name>[@version]` fails, the dependency map of
\* plugin.json is the one it was before the command.
C29_InstallAllOrNothing ==
    (last.op = "install" /\ last.args.plugin # <<>> /\ last.exit = 1)
        => deps[CONFIG_FILE].dependencies = last.filesBefore[CONFIG_FILE].dependencies
---------------------------------------------------------------------------
(* Properties of the registries of a maven: dependency, checked under      *)
(* SpecRegistries.                                                         *)

\* the registries the project declares
Declared == fIn.project.registries

\* the first place of a registry in the declared list
FirstPlace(registry) ==
    CHOOSE i \in 1..Len(Declared) :
       Declared[i] = registry /\ \A j \in 1..(i - 1) : Declared[j] # registry

\* whether a registry comes before another in the order of trial: declared
\* registries by their first place, Maven Central after them when the project
\* does not declare it
TriedBefore(a, b) ==
    IF a \in Range(Declared) /\ b \in Range(Declared) THEN FirstPlace(a) < FirstPlace(b)
    ELSE a \in Range(Declared) /\ b = MAVEN_CENTRAL

\* the original order: Maven Central after every other registry
CentralLast(a, b) == a # MAVEN_CENTRAL /\ (b = MAVEN_CENTRAL \/ TriedBefore(a, b))

\* the registries are contacted one at a time and in order, none twice, those
\* that do not answer ok are passed over, the first that does gives the
\* artifact and ends the trial, and the call fails only when all were tried
TrialInOrder(Before(_, _)) ==
    LET contacted == fOut.contacted
        all == Range(Declared) \cup {MAVEN_CENTRAL}
    IN  /\ \A i, j \in 1..Len(contacted) : i < j => Before(contacted[i], contacted[j])
        /\ \A i \in 1..Len(contacted) :
              (fIn.answers[contacted[i]] = "ok") <=> (fOut.ok /\ i = Len(contacted))
        /\ fOut.ok => /\ fOut.payload = contacted[Len(contacted)]
                      /\ fOut.written = {LibJar(<<"lib">>, <<"1">>)}
                      /\ \A r \in all \ Range(contacted) :
                            Before(contacted[Len(contacted)], r)
        /\ ~fOut.ok => Range(contacted) = all /\ fOut.written = {}

\* C30, as amended: the registries are tried in the declared order, Maven
\* Central at its declared place or, when the project does not declare it,
\* after them; a registry that does not answer ok or whose fetch throws is
\* passed over, the first that answers ok gives the artifact and no registry
\* after it is contacted, and the call fails only when all were tried.
C30_RegistriesInOrder == fOut.returned => TrialInOrder(TriedBefore)

\* two registries failed, one by throwing, before a third gave the artifact
C30_Witness ==
    /\ fOut.returned
    /\ fOut.ok
    /\ Len(fOut.contacted) = 3
    /\ fOut.logged # {}
    /\ fOut.payload = MAVEN_CENTRAL

\* C30, as stated: the same with Maven Central tried last in every case.
C30_CentralTriedLast == fOut.returned => TrialInOrder(CentralLast)
====
